---------------------------- MODULE Spec2Model ----------------------------
(***************************************************************************)
(* Verification model of the KoreanStock recommendation pipeline.          *)
(*                                                                         *)
(* Components modelled, each with its own specification:                   *)
(*   SpecComposer   RecommendationAgent.get_recommendations / _save_to_db  *)
(*   SpecSentiment  NewsAgent.get_sentiment_score (two-tier cache)         *)
(*   SpecOutcome    outcome_tracker.record_outcomes                        *)
(*   SpecScore      recommendation_agent._composite_score                  *)
(*   SpecPredict    StockPredictionModel.predict                           *)
(*   SpecIndicator  IndicatorCalculator.get_composite_score                *)
(*                                                                         *)
(* Numbers: the program computes with floats.  Scores are modelled as      *)
(* fixed-point integers in hundredths of a point ("centi"), returns in     *)
(* thousandths of a percent ("milli"); round(x, 2) is modelled by          *)
(* RoundDiv, which rounds an exact quotient to the nearest hundredth.      *)
(***************************************************************************)
EXTENDS Integers, Sequences, FiniteSets, Bags, TLC

VARIABLES
    \* ---- composer (get_recommendations) ----
    store,        \* recommendations table: a bag of rows (the id column,
                  \* which no query of the pipeline reads, is left out)
    today,        \* date.today(), as a day number
    runs,         \* number of get_recommendations calls started so far
    phase,        \* "idle" | "analyzing" | "returned" | "raised"
    cands,        \* target_codes of the current run (candidate_codes[:30])
    limit,        \* the limit argument of the current run
    futState,     \* per candidate index: "pending" | "result" | "none"
    futVal,       \* per candidate index: the analysis result of a finished task
    late,         \* candidate indices whose task took longer than the timeout
    results,      \* the results list, in completion order
    returned,     \* final_recs as returned (empty when nothing was returned)
    saveDate,     \* session_date used by this run's _save_to_db (0: none yet)
    replaced,     \* codes whose row for saveDate this run's save replaced
                  \* by a row with another score
    txn,          \* this run's _save_to_db transaction (history): the
                  \* record whose write raised (0: none) and whether rows
                  \* had been deleted or inserted before it raised
    selected      \* per (code, session date): the final_recs entry of the
                  \* latest returning run that selected the code on that
                  \* date, as a one-element list, or <<>> (history)

composerVars == <<store, today, runs, phase, cands, limit, futState,
                  futVal, late, results, returned, saveDate, replaced, txn, selected>>

VARIABLES
    \* ---- sentiment service (get_sentiment_score) ----
    l1,           \* tier 1: self._cache of the running process, per key
    l2,           \* tier 2: the durable sentiment cache, per key
    sDay,         \* date.today() as seen by the sentiment service
    pc,           \* per caller: "idle" | "l2" | "fetch" | "w1" | "w2" | "done"
    key,          \* per caller: cache_key of the call
    sres,         \* per caller: the result computed or found
    firstRet,     \* per key: the first result any call returned (history)
    torn,         \* per key: two misses overlapped, or a restart hit a call
                  \* between its tier-1 and tier-2 writes (history)
    after,        \* per caller: the call began after a result was returned
                  \* for its key (history)
    tier          \* per caller: where the call's result came from (history)

sentimentVars == <<l1, l2, sDay, pc, key, sres, firstRet, torn, after, tier>>

VARIABLES
    \* ---- ranking comparison (_composite_score) ----
    resX,         \* an analysis result of the entity
    resY,         \* another analysis result of the same entity
    rival,        \* the analysis result of another candidate
    outX,         \* composite, persisted score and top-1 choice with resX
    outY          \* the same with resY

scoreVars == <<resX, resY, rival, outX, outY>>

VARIABLES
    \* ---- prediction ensemble (StockPredictionModel.predict) ----
    models,         \* per model name: its package and what predicting does
    features,       \* the latest feature row, or none
    fallback_score, \* the fallback_score argument
    prediction      \* what predict returned

predictVars == <<models, features, fallback_score, prediction>>

VARIABLES
    \* ---- indicator engine (get_composite_score) ----
    latest,       \* the latest indicator row, or an empty frame
    tech_score    \* what get_composite_score returned

indicatorVars == <<latest, tech_score>>

VARIABLES
    \* ---- outcome tracker (record_outcomes) ----
    recs,         \* per code: the recommendation row the tracker joins on
    outcomes,     \* per code: the recommendation_outcomes row
    tday,         \* trading days passed since the session date
    oPhase,       \* "idle" | "running"
    queue,        \* the pending rows of the run not yet processed
    updated,      \* the run's count of updated records
    runNo,        \* number of runs started
    ignored,      \* horizons for which a run met a recorded price while
                  \* the data source answered another one (history)
    doneAt        \* the run that recorded the 20-day outcome (history)

outcomeVars ==
    <<recs, outcomes, tday, oPhase, queue, updated, runNo, ignored, doneAt>>

VARIABLES
    \* ---- news deduplication (_deduplicate_news) ----
    news_items,     \* the items argument, in the order it was passed
    domain_deduped, \* the list after the first pass
    news_final,     \* the returned list
    kept1,          \* positions of domain_deduped's items in news_items
    kept2,          \* positions of news_final's items in news_items
    dedup_done      \* TRUE once _deduplicate_news has returned

dedupVars ==
    <<news_items, domain_deduped, news_final, kept1, kept2, dedup_done>>

VARIABLES
    \* ---- backtester (Backtester.run) ----
    closes,         \* df['close'], one price per row
    signals,        \* the signals argument, one position per entry
    capital,        \* the capital of line 22, in half currency units
    bt_result       \* what run returned

backtestVars == <<closes, signals, capital, bt_result>>

VARIABLES
    \* ---- daily update (scheduler.run_daily_update) ----
    du_pc,          \* "idle" | "track" | "stocks" | "recommend" | "notify"
    du_runs,        \* calls of run_daily_update started so far
    du_log,         \* log records of the current call, oldest first
    du_sends,       \* send_message calls of the current call and whether
                    \* each was delivered
    du_recs,        \* number of recommendations the current call obtained
    du_raised,      \* TRUE if an exception left run_daily_update
    telegram_enabled \* notifier.enabled

dailyVars ==
    <<du_pc, du_runs, du_log, du_sends, du_recs, du_raised, telegram_enabled>>

VARIABLES
    \* ---- POST /recommendations/run (api/routers/recommendations.py) ----
    running_flag,   \* the module global _running
    task,           \* per request: "none" | "scheduled" | "running" | "done"
    reply,          \* per request: "none" or the status it was answered with
    saved_today     \* TRUE when the store has recommendations for today

runVars == <<running_flag, task, reply, saved_today>>

VARIABLES
    \* ---- cache miss of get_sentiment_score (lines 54-62) ----
    news_found,     \* TRUE when _fetch_news returned items
    dart_found,     \* TRUE when _fetch_dart_disclosures returned items
    service_outs,   \* what each attempt at the reasoning service ends in
    miss            \* the result computed, the calls made, the sleeps taken

missVars == <<news_found, dart_found, service_outs, miss>>

VARIABLES
    \* ---- consistency rule of _get_ai_opinion (lines 178-193) ----
    cur_price,      \* current_price, in won
    opinion,        \* the opinion: action and target_price
    prev_opinion,   \* the opinion before the latest application of the rule
    applied         \* how often the rule has been applied

opinionVars == <<cur_price, opinion, prev_opinion, applied>>

VARIABLES
    \* ---- strategy signals (TechnicalStrategy.generate_signals) ----
    bars,           \* the rows of df: rsi, macd and macd_signal of each
    strategy_type,  \* the strategy_type argument
    sig_out         \* the returned series, as a one-element list, or <<>>

signalVars == <<bars, strategy_type, sig_out>>

VARIABLES
    \* ---- stock listing (StockDataProvider.get_stock_list) ----
    clock,              \* datetime.now(), in seconds
    krx_cache,          \* self._krx_cache: a listing or None
    krx_timestamp,      \* self._krx_timestamp
    krx_fail_timestamp, \* self._krx_fail_timestamp
    sl_calls,           \* calls of get_stock_list so far
    sl_last,            \* the latest call: the table returned, the fetch
                        \* attempts made and the sleeps taken
    fail_span,          \* start and end time of the latest call that
                        \* failed, or <<>> (history)
    ok_span,            \* start and end time of the latest call that
                        \* fetched a listing, or <<>> (history)
    advances            \* how often time has passed between calls

listingVars ==
    <<clock, krx_cache, krx_timestamp, krx_fail_timestamp, sl_calls,
      sl_last, fail_span, ok_span, advances>>

pureVars == <<scoreVars, predictVars, indicatorVars>>

moreVars == <<missVars, opinionVars, signalVars, listingVars>>

utilVars == <<dedupVars, backtestVars, dailyVars, runVars, moreVars>>

vars == <<composerVars, sentimentVars, outcomeVars, pureVars, utilVars>>

\* What the actions of one component leave alone.
composerFrame  == <<sentimentVars, outcomeVars, pureVars, utilVars>>
sentimentFrame == <<composerVars, outcomeVars, pureVars, utilVars>>
outcomeFrame   == <<composerVars, sentimentVars, pureVars, utilVars>>
scoreFrame     ==
    <<composerVars, sentimentVars, outcomeVars, predictVars, indicatorVars,
      utilVars>>
predictFrame   ==
    <<composerVars, sentimentVars, outcomeVars, scoreVars, indicatorVars,
      utilVars>>
indicatorFrame ==
    <<composerVars, sentimentVars, outcomeVars, scoreVars, predictVars,
      utilVars>>
coreVars       == <<composerVars, sentimentVars, outcomeVars, pureVars>>
dedupFrame     == <<coreVars, backtestVars, dailyVars, runVars, moreVars>>
backtestFrame  == <<coreVars, dedupVars, dailyVars, runVars, moreVars>>
dailyFrame     == <<coreVars, dedupVars, backtestVars, runVars, moreVars>>
runFrame       == <<coreVars, dedupVars, backtestVars, dailyVars, moreVars>>
baseVars       ==
    <<coreVars, dedupVars, backtestVars, dailyVars, runVars>>
missFrame      == <<baseVars, opinionVars, signalVars, listingVars>>
opinionFrame   == <<baseVars, missVars, signalVars, listingVars>>
signalFrame    == <<baseVars, missVars, opinionVars, listingVars>>
listingFrame   == <<baseVars, missVars, opinionVars, signalVars>>

-----------------------------------------------------------------------------
(* Generic helpers *)

Min(a, b) == IF a < b THEN a ELSE b
Max(a, b) == IF a > b THEN a ELSE b
Abs(a) == IF a < 0 THEN -a ELSE a
Range(s) == {s[i] : i \in DOMAIN s}

\* np.clip(x, lo, hi) / max(lo, min(hi, x))
Clip(x, lo, hi) == Max(lo, Min(hi, x))

\* round(n / d) to the nearest integer, ties to even (Python round), d > 0.
RoundDiv(n, d) ==
    LET q == n \div d
        r == n % d
    IN  IF 2 * r < d THEN q
        ELSE IF 2 * r > d THEN q + 1
        ELSE IF q % 2 = 0 THEN q ELSE q + 1

\* Sequences over S without repeated elements, of length at most n.
RECURSIVE DistinctSeqs(_, _)
DistinctSeqs(S, n) ==
    IF n = 0 THEN {<<>>}
    ELSE LET shorter == DistinctSeqs(S, n - 1)
             longest == {t \in shorter : Len(t) = n - 1}
         IN  shorter \cup
             UNION {{Append(t, x) : x \in S \ Range(t)} : t \in longest}

-----------------------------------------------------------------------------
(* Composite recommendation score: recommendation_agent._composite_score.  *)
(* Inputs are centi-points; the result is in units of 1/20000 point so     *)
(* that the weights 0.65/0.35 and 0.40/0.35/0.25 and the halving of the    *)
(* sentiment stay exact.                                                   *)

\* sentiment_norm = max(0, min(100, (sentiment_raw + 100) / 2)), doubled.
SentimentNorm(x) == Clip(x.sentiment_score + 10000, 0, 20000)

\* Mutant: the ensemble term is weighted in both branches.
composite_score_always_ml(x) ==
    x.tech_score * 80 + x.ml_score * 70 + SentimentNorm(x) * 25

composite_score(x) ==
    IF x.ml_model_count = 0
    THEN x.tech_score * 130 + SentimentNorm(x) * 35
    ELSE x.tech_score * 80 + x.ml_score * 70 + SentimentNorm(x) * 25

\* round(_composite_score(rec), 2), in centi-points.
RoundedComposite(x) == RoundDiv(composite_score(x), 200)

\* results.sort(key=_composite_score, reverse=True): a stable sort, so that
\* entries with equal keys keep their completion order.
RECURSIVE InsertDesc(_, _)
InsertDesc(sorted, x) ==
    IF sorted = <<>> THEN <<x>>
    ELSE IF composite_score(Head(sorted)) >= composite_score(x)
         THEN <<Head(sorted)>> \o InsertDesc(Tail(sorted), x)
         ELSE <<x>> \o sorted

RECURSIVE SortDesc(_)

\* Mutant: the results stay in completion order.
SortDesc_completion_order(s) == s

SortDesc(s) ==
    IF s = <<>> THEN <<>>
    ELSE InsertDesc(SortDesc(SubSeq(s, 1, Len(s) - 1)), s[Len(s)])

-----------------------------------------------------------------------------
(* Recommendation Composer: RecommendationAgent.get_recommendations,       *)
(* _analyze_candidate and _save_to_db over the recommendations table.      *)

MaxRuns  == 2      \* get_recommendations calls per behaviour
MaxDay   == 2      \* session dates
MaxCands == 2      \* length of the candidate list a ranking returns
MaxLimit == 2      \* the limit argument ranges over 1..MaxLimit

TARGET_CAP  == 30  \* candidate_codes[:30]
TIMEOUT_SEC == 60  \* future.result(timeout=60)

Codes == {"A", "B"}

\* Seconds a task may take before it completes.
TaskSecs == {30, 90}

\* What analyze_stock can put in an analysis result (centi-points), and
\* whether json.dumps can serialise the result.
AnalysisValues ==
    { [tech_score |-> 7000, ml_score |-> 7000, ml_model_count |-> 0,
       sentiment_score |-> 0,     action |-> "BUY", serializable |-> TRUE],
      [tech_score |-> 4000, ml_score |-> 9000, ml_model_count |-> 2,
       sentiment_score |-> 6000,  action |-> "HOLD", serializable |-> FALSE] }

NoValue == [tech_score |-> 0, ml_score |-> 0, ml_model_count |-> 0,
            sentiment_score |-> 0, action |-> "N/A", serializable |-> TRUE]

WithCode(code, v) ==
    [code |-> code, tech_score |-> v.tech_score, ml_score |-> v.ml_score,
     ml_model_count |-> v.ml_model_count,
     sentiment_score |-> v.sentiment_score, action |-> v.action,
     serializable |-> v.serializable]

\* _analyze_candidate: analyze_stock's result, or None when the result has
\* an "error" key or analyze_stock raised.
analyze_candidate(kind, res) == IF kind = "ok" THEN <<res>> ELSE <<>>

\* Mutant: an analysis that raised empties the batch collected so far.
CollectResult_abort(list, kind, res) ==
    IF kind = "ok" THEN Append(list, res)
    ELSE IF kind = "exception" THEN <<>> ELSE list

\* The body of the as_completed loop for one finished future:
\* res = future.result(timeout=60); if res is not None: results.append(res).
CollectResult(list, kind, res) == list \o analyze_candidate(kind, res)

\* The row _save_to_db inserts; detail_json is None when json.dumps raised.
Row(rec, date) ==
    [code |-> rec.code, session_date |-> date, type |-> rec.action,
     score |-> RoundedComposite(rec), source |-> "AI_RECOMMENDER_V2",
     has_detail |-> rec.serializable]

\* Rows of the table for one (code, session_date).
RowsFor(tbl, code, date) ==
    {r \in BagToSet(tbl) : r.code = code /\ r.session_date = date}

\* Number of rows of the table for one (code, session_date).
RECURSIVE CountRows(_, _)
CountRows(tbl, rows) ==
    IF rows = {} THEN 0
    ELSE LET r == CHOOSE x \in rows : TRUE
         IN  CopiesIn(r, tbl) + CountRows(tbl, rows \ {r})

\* DELETE FROM recommendations WHERE code = ? AND session_date = ?
DeleteFor(tbl, code, date) ==
    LET keep == {r \in BagToSet(tbl) :
                    ~(r.code = code /\ r.session_date = date)}
    IN  [r \in keep |-> tbl[r]]

\* Mutant: the INSERT without the preceding DELETE.
UpsertRow_insert_only(tbl, rec, date) ==
    tbl (+) SetToBag({Row(rec, date)})

\* The DELETE followed by the INSERT of the new row (lines 127-145).
UpsertRow(tbl, rec, date) ==
    DeleteFor(tbl, rec.code, date) (+) SetToBag({Row(rec, date)})

\* The for loop of _save_to_db over recommendations[k..].
RECURSIVE SaveRows(_, _, _, _)

\* Mutant: the save first clears the session date's rows.
SaveRows_replace_day(tbl, final_recs, k, date) ==
    IF k > Len(final_recs) THEN tbl
    ELSE LET start == IF k = 1
                      THEN [r \in {x \in BagToSet(tbl) : x.session_date # date}
                               |-> tbl[r]]
                      ELSE tbl
         IN  SaveRows(UpsertRow(start, final_recs[k], date),
                      final_recs, k + 1, date)

SaveRows(tbl, final_recs, k, date) ==
    IF k > Len(final_recs) THEN tbl
    ELSE SaveRows(UpsertRow(tbl, final_recs[k], date),
                  final_recs, k + 1, date)

\* get_recommendations_by_date: the rows of one session date (read back
\* without a LIMIT).
get_recommendations_by_date(tbl, date) ==
    {r \in BagToSet(tbl) : r.session_date = date}

Pending == {i \in DOMAIN cands : futState[i] = "pending"}

\* No write of the current run's transaction has raised.
NoTxn == [failed |-> 0, dirty |-> FALSE]

InitComposer ==
    /\ store = EmptyBag
    /\ today = 1
    /\ runs = 0
    /\ phase = "idle"
    /\ cands = <<>>
    /\ limit = 1
    /\ futState = <<>>
    /\ futVal = <<>>
    /\ late = {}
    /\ results = <<>>
    /\ returned = <<>>
    /\ saveDate = 0
    /\ replaced = {}
    /\ txn = NoTxn
    /\ selected = [x \in Codes \X (1..MaxDay) |-> <<>>]

\* get_recommendations up to the submission of the tasks (lines 39-73).
StartRun(cs, lim) ==
    /\ phase # "analyzing"
    /\ runs < MaxRuns
    /\ runs' = runs + 1
    /\ limit' = lim
    /\ cands' = SubSeq(cs, 1, Min(Len(cs), TARGET_CAP))
    /\ futState' = [i \in DOMAIN cands' |-> "pending"]
    /\ futVal' = [i \in DOMAIN cands' |-> NoValue]
    /\ late' = {}
    /\ results' = <<>>
    /\ returned' = <<>>
    /\ saveDate' = 0
    /\ replaced' = {}
    /\ txn' = NoTxn
    /\ phase' = IF cs = <<>> THEN "returned" ELSE "analyzing"
    /\ UNCHANGED <<store, today, selected>>
    /\ UNCHANGED composerFrame

\* One task finishes after `secs` seconds and as_completed yields it.
CompleteTask(i, kind, v, secs) ==
    /\ phase = "analyzing"
    /\ i \in Pending
    /\ LET res == WithCode(cands[i], v)
       IN  /\ results' = CollectResult(results, kind, res)
           /\ futState' = [futState EXCEPT ![i] =
                              IF kind = "ok" THEN "result" ELSE "none"]
           /\ futVal' = [futVal EXCEPT ![i] =
                              IF kind = "ok" THEN v ELSE NoValue]
    /\ late' = IF secs > TIMEOUT_SEC THEN late \cup {i} ELSE late
    /\ UNCHANGED <<store, today, runs, phase, cands, limit,
                   returned, saveDate, replaced, txn, selected>>
    /\ UNCHANGED composerFrame

\* All futures are done and nothing was collected: return [].
ReturnEmpty ==
    /\ phase = "analyzing"
    /\ Pending = {}
    /\ results = <<>>
    /\ phase' = "returned"
    /\ returned' = <<>>
    /\ UNCHANGED <<store, today, runs, cands, limit, futState,
                   futVal, late, results, saveDate, replaced, txn, selected>>
    /\ UNCHANGED composerFrame

\* The rows written by the loop of _save_to_db when the write of record
\* failAt raises: records 1..failAt-1 are replaced, and record failAt's old
\* row is deleted too when it is the INSERT that raises.
PartialSave(tbl, final_recs, failAt, stage, date) ==
    LET done == SaveRows(tbl, SubSeq(final_recs, 1, failAt - 1), 1, date)
    IN  IF stage = "insert"
        THEN DeleteFor(done, final_recs[failAt].code, date)
        ELSE done

\* Mutant: every statement is committed as it is executed.
Rollback_autocommit(before, work) == work

\* An exception leaves the `with connection` block: sqlite3 rolls the
\* transaction back, so the table is what it was before the first write.
Rollback(before, work) == before

\* Sort, take the top `limit`, and _save_to_db in one transaction.  With
\* failAt = 0 the transaction commits; otherwise a write of record failAt
\* raises (its DELETE or its INSERT), the connection's context manager rolls
\* the transaction back and the exception leaves get_recommendations.
RankAndSave(failAt, stage) ==
    /\ phase = "analyzing"
    /\ Pending = {}
    /\ results # <<>>
    /\ LET sorted == SortDesc(results)
           final  == SubSeq(sorted, 1, Min(limit, Len(sorted)))
       IN  /\ failAt \in 0..Len(final)
           /\ results' = sorted
           /\ saveDate' = today
           /\ IF failAt = 0
              THEN /\ stage = "delete"
                   /\ store' = SaveRows(store, final, 1, today)
                   /\ replaced' =
                          {c \in Codes :
                              \E k \in DOMAIN final, r \in RowsFor(store, c, today) :
                                  /\ final[k].code = c
                                  /\ r.score # RoundedComposite(final[k])}
                   /\ returned' = final
                   /\ txn' = NoTxn
                   /\ selected' =
                          [x \in Codes \X (1..MaxDay) |->
                              IF x[2] = today
                                     /\ \E k \in DOMAIN final : final[k].code = x[1]
                              THEN <<final[CHOOSE k \in DOMAIN final :
                                                final[k].code = x[1]]>>
                              ELSE selected[x]]
                   /\ phase' = "returned"
              ELSE LET work == PartialSave(store, final, failAt, stage, today)
                   IN  /\ store' = Rollback(store, work)
                       /\ replaced' = {}
                       /\ returned' = <<>>
                       /\ txn' = [failed |-> failAt, dirty |-> work # store]
                       /\ UNCHANGED selected
                       /\ phase' = "raised"
    /\ UNCHANGED <<today, runs, cands, limit, futState, futVal, late>>
    /\ UNCHANGED composerFrame

\* Midnight passes.
NextDay ==
    /\ today < MaxDay
    /\ today' = today + 1
    /\ UNCHANGED <<store, runs, phase, cands, limit, futState, futVal,
                   late, results, returned, saveDate, replaced, txn, selected>>
    /\ UNCHANGED composerFrame

NextComposer ==
    \/ \E cs \in DistinctSeqs(Codes, MaxCands), lim \in 1..MaxLimit :
           StartRun(cs, lim)
    \/ \E i \in 1..MaxCands, kind \in {"ok", "error", "exception"},
          v \in AnalysisValues, secs \in TaskSecs :
           CompleteTask(i, kind, v, secs)
    \/ ReturnEmpty
    \/ \E failAt \in 0..MaxLimit, stage \in {"delete", "insert"} :
           RankAndSave(failAt, stage)
    \/ NextDay


-----------------------------------------------------------------------------
(* Sentiment Service: NewsAgent.get_sentiment_score with its two cache     *)
(* tiers, and NewsAgent._analyze_sentiment_with_ai.                        *)

MaxSDay  == 2      \* calendar days seen by the sentiment service

MAX_ATTEMPTS == 3  \* for _attempt in range(3)

Callers  == {"t1", "t2"}   \* threads calling get_sentiment_score
Entities == {"E"}
Keys     == Entities \X (1..MaxSDay)

\* Raw scores the reasoning service may answer with.
AiRawScores == {-150}

NoResult      == [sentiment_score |-> 0, reason |-> "none"]
NoNewsResult  == [sentiment_score |-> 0, reason |-> "no_news"]
FailedResult  == [sentiment_score |-> 0, reason |-> "failed"]
AiResult(raw) == [sentiment_score |-> Clip(raw, -100, 100), reason |-> "ai"]

\* What one attempt at the reasoning service can end in.
AttemptOutcomes ==
    {[kind |-> "ok", raw |-> s] : s \in AiRawScores}
        \cup {[kind |-> "rate_limit", raw |-> 0], [kind |-> "error", raw |-> 0]}

\* The retry loop of _analyze_sentiment_with_ai from attempt k on, with the
\* seconds slept so far: a success returns, a rate-limit error sleeps
\* 10 * 2^_attempt seconds unless it was the last attempt and moves on, any
\* other error breaks.  calls counts chat.completions.create.
RECURSIVE AnalyzeTrace(_, _, _)

\* Mutant: every error is retried after the backoff.
AnalyzeTrace_retry_all(outs, k, waits) ==
    IF k > MAX_ATTEMPTS
    THEN [result |-> FailedResult, calls |-> k - 1, waits |-> waits]
    ELSE IF outs[k].kind = "ok"
         THEN [result |-> AiResult(outs[k].raw), calls |-> k, waits |-> waits]
         ELSE AnalyzeTrace(outs, k + 1,
                  IF k < MAX_ATTEMPTS
                  THEN Append(waits, 10 * 2 ^ (k - 1)) ELSE waits)

AnalyzeTrace(outs, k, waits) ==
    IF k > MAX_ATTEMPTS
    THEN [result |-> FailedResult, calls |-> k - 1, waits |-> waits]
    ELSE IF outs[k].kind = "ok"
         THEN [result |-> AiResult(outs[k].raw), calls |-> k, waits |-> waits]
         ELSE IF outs[k].kind = "rate_limit"
              THEN AnalyzeTrace(outs, k + 1,
                       IF k < MAX_ATTEMPTS
                       THEN Append(waits, 10 * 2 ^ (k - 1)) ELSE waits)
              ELSE [result |-> FailedResult, calls |-> k, waits |-> waits]

analyze_sentiment_with_ai(outs, k) == AnalyzeTrace(outs, k, <<>>).result

\* Mutant: the reasoning service is asked even when nothing was found.
MissTrace_always_ai(news, dart, outs) == AnalyzeTrace(outs, 1, <<>>)

\* Lines 54-62: what a cache miss computes, calls and sleeps.
MissTrace(news, dart, outs) ==
    IF ~news /\ ~dart
    THEN [result |-> NoNewsResult, calls |-> 0, waits |-> <<>>]
    ELSE AnalyzeTrace(outs, 1, <<>>)

ComputeSentiment(news, dart, outs) == MissTrace(news, dart, outs).result

\* Tier 2: db_manager.get_sentiment_cache / save_sentiment_cache.
get_sentiment_cache(tbl, k) == tbl[k]
save_sentiment_cache(tbl, k, v) == [tbl EXCEPT ![k] = v]

InMiss(c) == pc[c] \in {"fetch", "w1", "w2"}

InitSentiment ==
    /\ l1 = [k \in Keys |-> NoResult]
    /\ l2 = [k \in Keys |-> NoResult]
    /\ sDay = 1
    /\ pc = [c \in Callers |-> "idle"]
    /\ key = [c \in Callers |-> <<"E", 1>>]
    /\ sres = [c \in Callers |-> NoResult]
    /\ firstRet = [k \in Keys |-> NoResult]
    /\ torn = [k \in Keys |-> FALSE]
    /\ after = [c \in Callers |-> FALSE]
    /\ tier = [c \in Callers |-> "none"]

\* A call starts: cache_key is built and tier 1 is consulted (lines 40-45).
CallCheckL1(c, e) ==
    /\ pc[c] = "idle"
    /\ LET k == <<e, sDay>>
       IN  /\ key' = [key EXCEPT ![c] = k]
           /\ after' = [after EXCEPT ![c] = firstRet[k] # NoResult]
           /\ IF l1[k] # NoResult
              THEN /\ sres' = [sres EXCEPT ![c] = l1[k]]
                   /\ pc' = [pc EXCEPT ![c] = "done"]
                   /\ tier' = [tier EXCEPT ![c] = "l1"]
                   /\ firstRet' = [firstRet EXCEPT ![k] =
                                      IF @ = NoResult THEN l1[k] ELSE @]
              ELSE /\ pc' = [pc EXCEPT ![c] = "l2"]
                   /\ UNCHANGED <<sres, firstRet, tier>>
    /\ UNCHANGED <<l1, l2, sDay, torn>>
    /\ UNCHANGED sentimentFrame

\* Mutant: tier 2 is never consulted.
CheckL2_skip(c) ==
    /\ pc[c] = "l2"
    /\ pc' = [pc EXCEPT ![c] = "fetch"]
    /\ torn' = [torn EXCEPT ![key[c]] =
                   @ \/ \E d \in Callers \ {c} : key[d] = key[c] /\ InMiss(d)]
    /\ UNCHANGED <<l1, l2, sDay, key, sres, firstRet, after, tier>>
    /\ UNCHANGED sentimentFrame

\* Tier 2 is consulted (lines 47-52); a hit is copied into tier 1.
CheckL2(c) ==
    /\ pc[c] = "l2"
    /\ LET k == key[c]
           cached == get_sentiment_cache(l2, k)
       IN  IF cached # NoResult
           THEN /\ l1' = [l1 EXCEPT ![k] = cached]
                /\ sres' = [sres EXCEPT ![c] = cached]
                /\ pc' = [pc EXCEPT ![c] = "done"]
                /\ firstRet' = [firstRet EXCEPT ![k] =
                                   IF @ = NoResult THEN cached ELSE @]
                /\ tier' = [tier EXCEPT ![c] = "l2"]
                /\ UNCHANGED torn
           ELSE /\ pc' = [pc EXCEPT ![c] = "fetch"]
                /\ torn' = [torn EXCEPT ![k] =
                               @ \/ \E d \in Callers \ {c} :
                                       key[d] = k /\ InMiss(d)]
                /\ UNCHANGED <<l1, sres, firstRet, tier>>
    /\ UNCHANGED <<l2, sDay, key, after>>
    /\ UNCHANGED sentimentFrame

\* Every result a miss can compute: over news found or not, disclosures
\* found or not, and the outcomes of the attempts at the reasoning service.
ComputedResults ==
    {ComputeSentiment(news, dart, outs) :
        news \in BOOLEAN, dart \in BOOLEAN,
        outs \in [1..MAX_ATTEMPTS -> AttemptOutcomes]}

\* Cache miss: fetch news and disclosures, analyse them (lines 54-62).
Compute(c, result) ==
    /\ pc[c] = "fetch"
    /\ sres' = [sres EXCEPT ![c] = result]
    /\ pc' = [pc EXCEPT ![c] = "w1"]
    /\ UNCHANGED <<l1, l2, sDay, key, firstRet, torn, after, tier>>
    /\ UNCHANGED sentimentFrame

\* Mutant: a miss does not store its result in tier 1.
WriteL1_skip(c) ==
    /\ pc[c] = "w1"
    /\ pc' = [pc EXCEPT ![c] = "w2"]
    /\ UNCHANGED <<l1, l2, sDay, key, sres, firstRet, torn, after, tier>>
    /\ UNCHANGED sentimentFrame

\* self._cache[cache_key] = result (line 65).
WriteL1(c) ==
    /\ pc[c] = "w1"
    /\ l1' = [l1 EXCEPT ![key[c]] = sres[c]]
    /\ pc' = [pc EXCEPT ![c] = "w2"]
    /\ UNCHANGED <<l2, sDay, key, sres, firstRet, torn, after, tier>>
    /\ UNCHANGED sentimentFrame

\* Mutant: a neutral result is returned without being saved in tier 2.
WriteL2Return_drop_neutral(c) ==
    /\ pc[c] = "w2"
    /\ l2' = IF sres[c].reason \in {"no_news", "failed"}
             THEN l2
             ELSE save_sentiment_cache(l2, key[c], sres[c])
    /\ pc' = [pc EXCEPT ![c] = "done"]
    /\ firstRet' = [firstRet EXCEPT ![key[c]] =
                       IF @ = NoResult THEN sres[c] ELSE @]
    /\ tier' = [tier EXCEPT ![c] = "computed"]
    /\ UNCHANGED <<l1, sDay, key, sres, torn, after>>
    /\ UNCHANGED sentimentFrame

\* db_manager.save_sentiment_cache(cache_key, result); return result.
WriteL2Return(c) ==
    /\ pc[c] = "w2"
    /\ l2' = save_sentiment_cache(l2, key[c], sres[c])
    /\ pc' = [pc EXCEPT ![c] = "done"]
    /\ firstRet' = [firstRet EXCEPT ![key[c]] =
                       IF @ = NoResult THEN sres[c] ELSE @]
    /\ tier' = [tier EXCEPT ![c] = "computed"]
    /\ UNCHANGED <<l1, sDay, key, sres, torn, after>>
    /\ UNCHANGED sentimentFrame

\* The caller takes the returned result; the thread is free again.
Finish(c) ==
    /\ pc[c] = "done"
    /\ pc' = [pc EXCEPT ![c] = "idle"]
    /\ sres' = [sres EXCEPT ![c] = NoResult]
    /\ after' = [after EXCEPT ![c] = FALSE]
    /\ tier' = [tier EXCEPT ![c] = "none"]
    /\ UNCHANGED <<l1, l2, sDay, key, firstRet, torn>>
    /\ UNCHANGED sentimentFrame

\* The process restarts: tier 1 and all calls in progress are lost.
Restart ==
    /\ l1' = [k \in Keys |-> NoResult]
    /\ pc' = [c \in Callers |-> "idle"]
    /\ sres' = [c \in Callers |-> NoResult]
    /\ after' = [c \in Callers |-> FALSE]
    /\ tier' = [c \in Callers |-> "none"]
    /\ torn' = [k \in Keys |->
                   torn[k] \/ \E c \in Callers : key[c] = k /\ pc[c] = "w2"]
    /\ UNCHANGED <<l2, sDay, key, firstRet>>
    /\ UNCHANGED sentimentFrame

\* Midnight passes for the sentiment service.
NextSDay ==
    /\ sDay < MaxSDay
    /\ sDay' = sDay + 1
    /\ UNCHANGED <<l1, l2, pc, key, sres, firstRet, torn, after, tier>>
    /\ UNCHANGED sentimentFrame

NextSentiment ==
    \/ \E c \in Callers, e \in Entities : CallCheckL1(c, e)
    \/ \E c \in Callers : CheckL2(c)
    \/ \E c \in Callers, result \in ComputedResults : Compute(c, result)
    \/ \E c \in Callers : WriteL1(c)
    \/ \E c \in Callers : WriteL2Return(c)
    \/ \E c \in Callers : Finish(c)
    \/ Restart
    \/ NextSDay

-----------------------------------------------------------------------------
(* Outcome Tracker: outcome_tracker.record_outcomes, _is_correct and       *)
(* _get_price_after_n_trading_days over recommendation_outcomes.  Prices   *)
(* are in won, realized returns in thousandths of a percent, stored        *)
(* returns in hundredths of a percent.                                     *)

MaxTDays  == 20    \* trading days that pass after the session date
MaxORuns  == 3     \* record_outcomes runs per behaviour

HORIZONS == <<5, 10, 20>>

OCodes == <<"A", "B">>     \* pending rows come ORDER BY session_date

NoPrice == -1      \* NULL price / result is None
NoFlag  == -1      \* NULL correct_Nd / target_hit

\* Closing prices the data source can return, around an entry price of
\* 100000: -5 %, just above -5 %, 0 % and just above 0 %.
Prices == {95000, 95001, 100000, 100001}

\* Mutant: HOLD is correct from -5 % on.
is_correct_hold_ge(action, return_pct) ==
    IF action = "BUY" THEN (IF return_pct > 0 THEN 1 ELSE 0)
    ELSE IF action = "SELL" THEN (IF return_pct < 0 THEN 1 ELSE 0)
    ELSE (IF return_pct >= -5000 THEN 1 ELSE 0)

is_correct(action, return_pct) ==
    IF action = "BUY" THEN (IF return_pct > 0 THEN 1 ELSE 0)
    ELSE IF action = "SELL" THEN (IF return_pct < 0 THEN 1 ELSE 0)
    ELSE (IF return_pct > -5000 THEN 1 ELSE 0)

\* ret_pct = (price - entry_price) / entry_price * 100; the entry prices of
\* the model keep the quotient exact.
ReturnPct(price, entry) == ((price - entry) * 100000) \div entry

UnsetHorizon == [price |-> NoPrice, ret |-> 0, correct |-> NoFlag]

NoOutcome ==
    [exists |-> FALSE, action |-> "", h |-> [i \in 1..3 |-> UnsetHorizon],
     target_hit |-> NoFlag]

\* The rows of the SELECT: recommendations with a session date and detail
\* whose outcome has no correct_20d, with the prices recorded so far.
PendingRows(rs, out) ==
    LET sel == SelectSeq(OCodes, LAMBDA c :
                   rs[c].has_detail /\ out[c].h[3].correct = NoFlag)
    IN  [k \in 1..Len(sel) |->
            [code |-> sel[k], action |-> rs[sel[k]].action,
             entry_price |-> rs[sel[k]].entry_price,
             target_price |-> rs[sel[k]].target_price,
             existing |-> [i \in 1..3 |-> out[sel[k]].h[i].price]]]

\* What the data source can answer for the three horizons once `elapsed`
\* trading days have passed: a close or nothing, and nothing for a horizon
\* whose day has not come.
Answers(elapsed) ==
    {a \in [1..3 -> Prices \cup {NoPrice}] :
        \A i \in 1..3 : elapsed < HORIZONS[i] => a[i] = NoPrice}

\* _get_price_after_n_trading_days: None until n trading days have passed,
\* then whatever the data source answers (a close or nothing).
PriceAfter(n, elapsed, answer) == IF elapsed < n THEN NoPrice ELSE answer

\* The horizon loop from horizon i on: a recorded horizon is skipped, a
\* missing price ends the loop.
RECURSIVE HorizonUpdates(_, _, _, _)

\* Mutant: a recorded horizon is fetched and written again.
HorizonUpdates_no_skip(row, i, elapsed, answers) ==
    IF i > 3 THEN {}
    ELSE LET price == PriceAfter(HORIZONS[i], elapsed, answers[i])
         IN  IF price = NoPrice THEN {}
             ELSE {[i |-> i, price |-> price,
                    ret |-> RoundDiv(ReturnPct(price, row.entry_price), 10),
                    correct |-> is_correct(row.action,
                                    ReturnPct(price, row.entry_price))]}
                      \cup HorizonUpdates(row, i + 1, elapsed, answers)

\* Mutant: a missing price is passed over and the longer horizons are
\* still tried.
HorizonUpdates_skip_ahead(row, i, elapsed, answers) ==
    IF i > 3 THEN {}
    ELSE IF row.existing[i] # NoPrice
         THEN HorizonUpdates(row, i + 1, elapsed, answers)
         ELSE LET price == PriceAfter(HORIZONS[i], elapsed, answers[i])
              IN  IF price = NoPrice
                  THEN HorizonUpdates(row, i + 1, elapsed, answers)
                  ELSE {[i |-> i, price |-> price,
                         ret |-> RoundDiv(ReturnPct(price, row.entry_price), 10),
                         correct |-> is_correct(row.action,
                                         ReturnPct(price, row.entry_price))]}
                           \cup HorizonUpdates(row, i + 1, elapsed, answers)

HorizonUpdates(row, i, elapsed, answers) ==
    IF i > 3 THEN {}
    ELSE IF row.existing[i] # NoPrice
         THEN HorizonUpdates(row, i + 1, elapsed, answers)
         ELSE LET price == PriceAfter(HORIZONS[i], elapsed, answers[i])
              IN  IF price = NoPrice THEN {}
                  ELSE {[i |-> i, price |-> price,
                         ret |-> RoundDiv(ReturnPct(price, row.entry_price), 10),
                         correct |-> is_correct(row.action,
                                         ReturnPct(price, row.entry_price))]}
                           \cup HorizonUpdates(row, i + 1, elapsed, answers)

\* target_hit, decided when the 20-day price is among the updates.
TargetHit(row, ups, old) ==
    IF \E u \in ups : u.i = 3
    THEN LET p == (CHOOSE u \in ups : u.i = 3).price
         IN  IF row.target_price > 0 /\ row.action \in {"BUY", "SELL"}
             THEN IF row.action = "BUY"
                  THEN (IF p >= row.target_price THEN 1 ELSE 0)
                  ELSE (IF p <= row.target_price THEN 1 ELSE 0)
             ELSE old
    ELSE old

\* INSERT ... ON CONFLICT DO NOTHING, then UPDATE ... SET the updates.
ApplyUpdates(o, row, ups) ==
    [exists |-> TRUE,
     action |-> IF o.exists THEN o.action ELSE row.action,
     h |-> [i \in 1..3 |->
               IF \E u \in ups : u.i = i
               THEN LET u == CHOOSE u \in ups : u.i = i
                    IN  [price |-> u.price, ret |-> u.ret,
                         correct |-> u.correct]
               ELSE o.h[i]],
     target_hit |-> TargetHit(row, ups, o.target_hit)]

\* if not entry_price or not action or action == "N/A": continue
Skipped(row) ==
    row.entry_price = 0 \/ row.action = "" \/ row.action = "N/A"

\* The recommendations the tracker finds: the first with an opinion, the
\* second with a failed opinion, without a price, or without detail.
RecRow(a, entry, target, detail) ==
    [action |-> a, entry_price |-> entry, target_price |-> target,
     has_detail |-> detail]

RecChoices ==
    {[c \in Range(OCodes) |-> IF c = OCodes[1] THEN pair[1] ELSE pair[2]] :
        pair \in {<<RecRow("BUY", 100000, 100001, TRUE),
                    RecRow("N/A", 100000, 0, TRUE)>>,
                  <<RecRow("SELL", 100000, 95001, TRUE),
                    RecRow("BUY", 0, 0, TRUE)>>,
                  <<RecRow("HOLD", 100000, 95001, TRUE),
                    RecRow("BUY", 100000, 0, FALSE)>>,
                  <<RecRow("BUY", 100000, 0, TRUE),
                    RecRow("", 100000, 0, TRUE)>>}}

IdleOutcome ==
    /\ recs = [c \in Range(OCodes) |->
                  [action |-> "N/A", entry_price |-> 0, target_price |-> 0,
                   has_detail |-> FALSE]]
    /\ outcomes = [c \in Range(OCodes) |-> NoOutcome]
    /\ tday = 0
    /\ oPhase = "idle"
    /\ queue = <<>>
    /\ updated = 0
    /\ runNo = 0
    /\ ignored = {}
    /\ doneAt = 0

InitOutcome ==
    /\ recs \in RecChoices
    /\ outcomes = [c \in Range(OCodes) |-> NoOutcome]
    /\ tday = 0
    /\ oPhase = "idle"
    /\ queue = <<>>
    /\ updated = 0
    /\ runNo = 0
    /\ ignored = {}
    /\ doneAt = 0

\* record_outcomes starts: the pending rows are selected.
StartRecord ==
    /\ oPhase = "idle"
    /\ runNo < MaxORuns
    /\ runNo' = runNo + 1
    /\ queue' = PendingRows(recs, outcomes)
    /\ updated' = 0
    /\ oPhase' = "running"
    /\ UNCHANGED <<recs, outcomes, tday, ignored, doneAt>>
    /\ UNCHANGED outcomeFrame

\* One pass of the loop over pending: the next row is skipped, or its
\* horizons are fetched and the updates written in one transaction.
ProcessNext(answers) ==
    /\ oPhase = "running"
    /\ queue # <<>>
    /\ LET row == Head(queue)
           ups == IF Skipped(row) THEN {}
                  ELSE HorizonUpdates(row, 1, tday, answers)
       IN  /\ queue' = Tail(queue)
           /\ IF ups = {}
              THEN UNCHANGED <<outcomes, updated, doneAt>>
              ELSE /\ outcomes' = [outcomes EXCEPT ![row.code] =
                                      ApplyUpdates(@, row, ups)]
                   /\ updated' = updated + 1
                   /\ doneAt' = IF \E u \in ups : u.i = 3 THEN runNo
                                ELSE doneAt
           /\ ignored' = IF Skipped(row) THEN ignored
                         ELSE ignored \cup
                              {i \in 1..3 :
                                  /\ row.existing[i] # NoPrice
                                  /\ answers[i] # NoPrice
                                  /\ answers[i] # row.existing[i]}
    /\ UNCHANGED <<recs, tday, oPhase, runNo>>
    /\ UNCHANGED outcomeFrame

\* The loop is over: record_outcomes returns updated.
EndRecord ==
    /\ oPhase = "running"
    /\ queue = <<>>
    /\ oPhase' = "idle"
    /\ UNCHANGED <<recs, outcomes, tday, queue, updated, runNo, ignored, doneAt>>
    /\ UNCHANGED outcomeFrame

\* A trading day passes.
TradingDay ==
    /\ tday < MaxTDays
    /\ tday' = tday + 1
    /\ UNCHANGED <<recs, outcomes, oPhase, queue, updated, runNo, ignored, doneAt>>
    /\ UNCHANGED outcomeFrame

NextOutcome ==
    \/ StartRecord
    \/ \E answers \in Answers(tday) : ProcessNext(answers)
    \/ EndRecord
    \/ TradingDay

-----------------------------------------------------------------------------
(* Ranking by composite score: two analysis results of one entity are      *)
(* scored, rounded for persistence and ranked against a rival, as          *)
(* get_recommendations and _save_to_db do.                                 *)

\* Analysis results the comparison ranges over (centi-points).
ScoreInputs ==
    [tech_score : {0, 5550, 10000}, ml_score : {0, 3333, 10000},
     ml_model_count : {0, 3}, sentiment_score : {-10000, 1500, 10000},
     action : {"BUY"}, serializable : {TRUE}]

\* Another candidate of the same run.
Rivals ==
    {WithCode("R", [tech_score |-> t, ml_score |-> 5000, ml_model_count |-> 3,
                    sentiment_score |-> 0, action |-> "HOLD",
                    serializable |-> TRUE]) :
        t \in {2000, 6000}}

NotScored == [scored |-> FALSE]

\* results.sort(...) and results[:1] over the rival and the entity, then the
\* score _save_to_db persists for the entity.
ScoreAndRank(x, r) ==
    [scored    |-> TRUE,
     composite |-> composite_score(x),
     persisted |-> RoundedComposite(x),
     top       |-> SortDesc(<<r, WithCode("X", x)>>)[1].code]

IdleScore ==
    /\ resX = NoValue
    /\ resY = NoValue
    /\ rival = WithCode("R", NoValue)
    /\ outX = NotScored
    /\ outY = NotScored

InitScore ==
    /\ resX \in ScoreInputs
    /\ resY \in ScoreInputs
    /\ rival \in Rivals
    /\ outX = NotScored
    /\ outY = NotScored

\* Both results are scored and ranked.
Score ==
    /\ ~outX.scored
    /\ outX' = ScoreAndRank(resX, rival)
    /\ outY' = ScoreAndRank(resY, rival)
    /\ UNCHANGED <<resX, resY, rival>>
    /\ UNCHANGED scoreFrame

NextScore == Score

-----------------------------------------------------------------------------
(* Prediction Ensemble: StockPredictionModel._load_existing_models and     *)
(* predict.  Predictions, fallback and heuristic are in milli-points, the  *)
(* returned ensemble_score in centi-points, RMSE in hundredths and weights *)
(* in quarters.                                                            *)

\* model_names of _load_existing_models, in the order self.models is filled.
ModelNames == <<"random_forest", "gradient_boosting", "xgboost">>

NoRmse == -1000000     \* no params file: the weight defaults to 1.0
NoFallback == -1000000 \* fallback_score=None

\* What model.predict can return for the latest feature row.
ModelPredictions == {-20000, 53487, 130000}

\* test_rmse values a params file can hold.
RmseValues == {NoRmse, 0, 200}

\* A model package: not on disk, or loaded and then raising or predicting.
ModelStates ==
    {[kind |-> "absent", p |-> 0, rmse |-> NoRmse],
     [kind |-> "raises", p |-> 0, rmse |-> NoRmse]}
        \cup [kind : {"ok"}, p : ModelPredictions, rmse : RmseValues]

\* The latest feature row (rsi in hundredths, price_sma_20_ratio in 1/10000),
\* or no row at all.
FeatureRows ==
    {[valid |-> FALSE, rsi |-> 5000, macd_diff |-> 0, ratio |-> 10000],
     [valid |-> TRUE, rsi |-> 3333,  macd_diff |-> 1,  ratio |-> 10000],
     [valid |-> TRUE, rsi |-> 5000,  macd_diff |-> 0,  ratio |-> 10000],
     [valid |-> TRUE, rsi |-> 0,     macd_diff |-> 1,  ratio |-> 20000],
     [valid |-> TRUE, rsi |-> 10000, macd_diff |-> -1, ratio |-> 2000]}

\* fallback_score arguments.
FallbackScores == {NoFallback, -5000, 55555, 62000, 120000}

\* self.model_weights[name] = 1.0 / max(rmse, 0.01), or 1.0.
ModelWeight(m) ==
    IF m.rmse = NoRmse THEN 4 ELSE 400 \div Max(m.rmse, 1)

\* self.models holds the loaded packages only.
Loaded(ms) == SelectSeq(ModelNames, LAMBDA n : ms[n].kind # "absent")

NoSums == [weighted_sum |-> 0, total_weight |-> 0, model_count |-> 0]

\* Mutant: a model whose prediction raised counts as predicting 0.
EnsembleStep_count_failed(acc, m) ==
    [weighted_sum |-> acc.weighted_sum
                          + (IF m.kind = "ok" THEN m.p ELSE 0) * ModelWeight(m),
     total_weight |-> acc.total_weight + ModelWeight(m),
     model_count  |-> acc.model_count + 1]

\* One pass of the loop body: try ... except: continue.
EnsembleStep(acc, m) ==
    IF m.kind = "ok"
    THEN [weighted_sum |-> acc.weighted_sum + m.p * ModelWeight(m),
          total_weight |-> acc.total_weight + ModelWeight(m),
          model_count  |-> acc.model_count + 1]
    ELSE acc

\* for name, model in self.models.items(): ...
RECURSIVE EnsembleSums(_, _)
EnsembleSums(ms, names) ==
    IF names = <<>> THEN NoSums
    ELSE EnsembleStep(
             EnsembleSums(ms, SubSeq(names, 1, Len(names) - 1)),
             ms[names[Len(names)]])

\* round(float(np.clip(num / den, 0.0, 100.0)), 2), in centi-points.
ClipRound(num, den) == RoundDiv(Clip(num, 0, 100000 * den), 10 * den)

\* 50 + (50 - rsi) * 0.3 + (10 if macd_diff > 0 else -10) + (ratio - 1) * 50
Heuristic(f) ==
    50000 + (5000 - f.rsi) * 3
        + (IF f.macd_diff > 0 THEN 10000 ELSE -10000)
        + (f.ratio - 10000) * 5

\* Mutant: the supplied fallback score is ignored.
Fallback_heuristic_only(f, fb) ==
    [error |-> FALSE, ensemble_score |-> ClipRound(Heuristic(f), 1),
     model_count |-> 0, note |-> "fallback_heuristic"]

\* The model_count == 0 branch.
Fallback(f, fb) ==
    IF fb # NoFallback
    THEN [error |-> FALSE, ensemble_score |-> ClipRound(fb, 1),
          model_count |-> 0, note |-> "fallback_to_tech_score"]
    ELSE [error |-> FALSE, ensemble_score |-> ClipRound(Heuristic(f), 1),
          model_count |-> 0, note |-> "fallback_heuristic"]

NoPrediction == [error |-> FALSE, ensemble_score |-> 0, model_count |-> -1,
                 note |-> "not_called"]

predict(ms, f, fb) ==
    IF ~f.valid
    THEN [error |-> TRUE, ensemble_score |-> 0, model_count |-> 0,
          note |-> "Insufficient data for ML prediction"]
    ELSE LET sums == EnsembleSums(ms, Loaded(ms))
         IN  IF sums.model_count = 0 THEN Fallback(f, fb)
             ELSE [error |-> FALSE,
                   ensemble_score |->
                       ClipRound(sums.weighted_sum, sums.total_weight),
                   model_count |-> sums.model_count,
                   note |-> ""]     \* the ensemble result has no note

IdlePredict ==
    /\ models = [n \in Range(ModelNames) |->
                    [kind |-> "absent", p |-> 0, rmse |-> NoRmse]]
    /\ features = [valid |-> FALSE, rsi |-> 5000, macd_diff |-> 0,
                   ratio |-> 10000]
    /\ fallback_score = NoFallback
    /\ prediction = NoPrediction

InitPredict ==
    /\ models \in [Range(ModelNames) -> ModelStates]
    /\ features \in FeatureRows
    /\ fallback_score \in FallbackScores
    /\ prediction = NoPrediction

Predict ==
    /\ prediction = NoPrediction
    /\ prediction' = predict(models, features, fallback_score)
    /\ UNCHANGED <<models, features, fallback_score>>
    /\ UNCHANGED predictFrame

NextPredict == Predict

-----------------------------------------------------------------------------
(* Indicator Engine: IndicatorCalculator.get_composite_score over the      *)
(* latest indicator row.  Prices are integers, RSI is in hundredths.       *)

NaN == -999999     \* a missing (not-a-number) indicator value

\* Comparisons with NaN are false.
Gt(a, b) == a # NaN /\ b # NaN /\ a > b

\* Closing prices around every Bollinger zone boundary of the band
\* [10000, 11000], and outside the band.
ClosePrices ==
    {9900, 10099, 10100, 10199, 10200, 10399, 10400, 10500, 10501,
     10700, 10701, 10750, 10751, 10899, 10900, 10901, 11100}

\* RSI values around every tier boundary.
RsiValues ==
    {NaN, 0, 2999, 3000, 3499, 3500, 4499, 4500, 6500, 6501, 7500, 7501, 10000}

\* (volume, vol_sma_20) pairs: below 1.5x, exactly 1.5x, no average.
VolumePairs == {<<149, 100>>, <<150, 100>>, <<100, 0>>}

IndicatorRows ==
    [empty : {FALSE}, close : ClosePrices, sma_5 : {10000, 13000},
     sma_20 : {10450, 12000}, sma_60 : {NaN, 10450},
     macd : {0, 1}, macd_signal : {0}, rsi : RsiValues,
     bb_low : {10000}, bb_high : {NaN, 10000, 11000}, vol : VolumePairs]

\* df.empty or no 'rsi' column.
EmptyFrame ==
    [empty |-> TRUE, close |-> NaN, sma_5 |-> NaN, sma_20 |-> NaN,
     sma_60 |-> NaN, macd |-> NaN, macd_signal |-> NaN, rsi |-> NaN,
     bb_low |-> NaN, bb_high |-> NaN, vol |-> <<0, 0>>]

\* Mutant: MACD above its signal earns 20 points with SMA60 present too.
TrendScore_macd20(r) ==
    (IF Gt(r.close, r.sma_20) THEN 10 ELSE 0)
        + (IF Gt(r.sma_5, r.sma_20) THEN 10 ELSE 0)
        + (IF r.sma_60 # NaN
           THEN (IF Gt(r.macd, r.macd_signal) THEN 20 ELSE 0)
                    + (IF Gt(r.close, r.sma_60) THEN 5 ELSE 0)
           ELSE (IF Gt(r.macd, r.macd_signal) THEN 20 ELSE 0))

\* 1. trend score
TrendScore(r) ==
    (IF Gt(r.close, r.sma_20) THEN 10 ELSE 0)
        + (IF Gt(r.sma_5, r.sma_20) THEN 10 ELSE 0)
        + (IF r.sma_60 # NaN
           THEN (IF Gt(r.macd, r.macd_signal) THEN 15 ELSE 0)
                    + (IF Gt(r.close, r.sma_60) THEN 5 ELSE 0)
           ELSE (IF Gt(r.macd, r.macd_signal) THEN 20 ELSE 0))

\* 2. momentum score by RSI tier
MomScore(r) ==
    LET rsi == r.rsi
    IN  IF rsi = NaN THEN 4
        ELSE IF 4500 <= rsi /\ rsi <= 6500 THEN 30
        ELSE IF 3500 <= rsi /\ rsi < 4500 THEN 22
        ELSE IF 6500 < rsi /\ rsi <= 7500 THEN 18
        ELSE IF 3000 <= rsi /\ rsi < 3500 THEN 12
        ELSE IF rsi > 7500 THEN 8
        ELSE 4

\* bb_pos as a fraction <<numerator, denominator>> with a positive
\* denominator; 0.5 when the band has no width, NaN when it is missing.
BbPos(r) ==
    IF r.bb_high = NaN \/ r.bb_low = NaN \/ r.close = NaN THEN <<NaN, 1>>
    ELSE IF r.bb_high - r.bb_low # 0
         THEN <<r.close - r.bb_low, r.bb_high - r.bb_low>>
         ELSE <<1, 2>>

\* pos >= pct / 100, pos > pct / 100 and so on; false for NaN.
PosGe(pos, pct) == pos[1] # NaN /\ 100 * pos[1] >= pct * pos[2]
PosGt(pos, pct) == pos[1] # NaN /\ 100 * pos[1] >  pct * pos[2]
PosLe(pos, pct) == pos[1] # NaN /\ 100 * pos[1] <= pct * pos[2]
PosLt(pos, pct) == pos[1] # NaN /\ 100 * pos[1] <  pct * pos[2]

\* Bollinger position zones, shifted by the MACD direction.
BbScore(r) ==
    LET pos == BbPos(r)
    IN  IF Gt(r.macd, r.macd_signal)
        THEN IF PosGe(pos, 40) /\ PosLe(pos, 75) THEN 25
             ELSE IF PosGt(pos, 75) /\ PosLe(pos, 90) THEN 18
             ELSE IF PosGe(pos, 20) /\ PosLt(pos, 40) THEN 14
             ELSE IF PosGt(pos, 90) THEN 8
             ELSE 3
        ELSE IF PosGe(pos, 20) /\ PosLe(pos, 50) THEN 25
             ELSE IF PosGt(pos, 50) /\ PosLe(pos, 70) THEN 18
             ELSE IF PosGe(pos, 10) /\ PosLt(pos, 20) THEN 12
             ELSE IF PosGt(pos, 70) /\ PosLt(pos, 90) THEN 8
             ELSE 3

\* volume / vol_sma_20 >= 1.5
VolumeBonus(r) ==
    IF r.vol[2] > 0 /\ 2 * r.vol[1] >= 3 * r.vol[2] THEN 5 ELSE 0

\* 3. price position + volume confirmation
VolScore(r) == BbScore(r) + VolumeBonus(r)

NotComputed == -1

get_composite_score(r) ==
    IF r.empty THEN 50
    ELSE TrendScore(r) + MomScore(r) + VolScore(r)

IdleIndicator ==
    /\ latest = EmptyFrame
    /\ tech_score = NotComputed

InitIndicator ==
    /\ latest \in IndicatorRows \cup {EmptyFrame}
    /\ tech_score = NotComputed

GetCompositeScore ==
    /\ tech_score = NotComputed
    /\ tech_score' = get_composite_score(latest)
    /\ UNCHANGED latest
    /\ UNCHANGED indicatorFrame

NextIndicator == GetCompositeScore

-----------------------------------------------------------------------------
(* News deduplication: NewsAgent._deduplicate_news, the two passes that    *)
(* _fetch_news applies to the items of one news search.                    *)

MaxItems == 3      \* items in one list

\* URLs an item can carry, and what urlparse(url).netloc yields for them.
NaverLink == "https://n.news.naver.com/1"
NewsUrls  == {"", "https://a.com/1"}

netloc(url) ==
    CASE url = "https://a.com/1" -> "a.com"
      [] url = NaverLink         -> "n.news.naver.com"
      [] OTHER                   -> ""

\* Titles, as the list re.split(r'[\s\W]+', title) yields: the words between
\* runs of separators, with an empty string where the title begins or ends
\* with a separator.
NewsTitles ==
    { <<"">>,
      <<"w1", "w2", "w3", "w1">>,
      <<"w1", "w2", "w3", "w4", "">>,
      <<"w1", "w2", "w3", "w4", "w5">> }

\* pubDate as a point in time (larger is more recent).
PubDates == {1, 2}

NewsItems ==
    { it \in [originallink : NewsUrls, link : {"", NaverLink},
              pubDate : PubDates, title : NewsTitles] :
          it.originallink # "" => it.link = NaverLink }

\* url = item.get('originallink') or item.get('link', '');
\* domain = urlparse(url).netloc
Domain(it) ==
    netloc(IF it.originallink # "" THEN it.originallink ELSE it.link)

\* Mutant: the first pass keeps every item.
DomainPass_keep_all(its, i, seen_domains) == [k \in 1..(Len(its) - i + 1) |-> k + i - 1]

\* First pass from position i on: the positions of the items appended to
\* domain_deduped.
RECURSIVE DomainPass(_, _, _)
DomainPass(its, i, seen_domains) ==
    IF i > Len(its) THEN <<>>
    ELSE LET domain == Domain(its[i])
         IN  IF domain = ""
             THEN <<i>> \o DomainPass(its, i + 1, seen_domains)
             ELSE IF domain \notin seen_domains
             THEN <<i>> \o DomainPass(its, i + 1, seen_domains \cup {domain})
             ELSE DomainPass(its, i + 1, seen_domains)

\* tokenize: set(re.split(...)) - {''}
tokenize(title) == Range(title) \ {""}

\* len(tokens & seen) / len(tokens | seen) > 0.75; 0.75 is a binary
\* fraction, so the float comparison agrees with the exact one.
Similar(tokens, seen) ==
    4 * Cardinality(tokens \cap seen) > 3 * Cardinality(tokens \cup seen)

\* Mutant: an item is compared with the last kept item only.
IsDup_last_only(tokens, seen_token_sets) ==
    /\ seen_token_sets # <<>>
    /\ tokens # {}
    /\ seen_token_sets[Len(seen_token_sets)] # {}
    /\ Similar(tokens, seen_token_sets[Len(seen_token_sets)])

\* is_dup = any(... for seen in seen_token_sets if tokens and seen)
IsDup(tokens, seen_token_sets) ==
    \E k \in DOMAIN seen_token_sets :
        /\ tokens # {}
        /\ seen_token_sets[k] # {}
        /\ Similar(tokens, seen_token_sets[k])

\* Second pass over the list at positions idx, from its j-th entry on: the
\* positions (in the original list) of the items appended to final.
RECURSIVE TitlePass(_, _, _, _)
TitlePass(its, idx, j, seen_token_sets) ==
    IF j > Len(idx) THEN <<>>
    ELSE LET tokens == tokenize(its[idx[j]].title)
         IN  IF ~IsDup(tokens, seen_token_sets)
             THEN <<idx[j]>> \o
                  TitlePass(its, idx, j + 1, Append(seen_token_sets, tokens))
             ELSE TitlePass(its, idx, j + 1, seen_token_sets)

Select(its, idx) == [k \in DOMAIN idx |-> its[idx[k]]]

IdleDedup ==
    /\ news_items = <<>>
    /\ domain_deduped = <<>>
    /\ news_final = <<>>
    /\ kept1 = <<>>
    /\ kept2 = <<>>
    /\ dedup_done = TRUE

InitDedup ==
    /\ news_items \in UNION {[1..n -> NewsItems] : n \in 0..MaxItems}
    /\ domain_deduped = <<>>
    /\ news_final = <<>>
    /\ kept1 = <<>>
    /\ kept2 = <<>>
    /\ dedup_done = FALSE

\* One call _deduplicate_news(items).
DeduplicateNews ==
    /\ ~dedup_done
    /\ LET first  == DomainPass(news_items, 1, {})
           second == TitlePass(news_items, first, 1, <<>>)
       IN  /\ kept1' = first
           /\ kept2' = second
           /\ domain_deduped' = Select(news_items, first)
           /\ news_final' = Select(news_items, second)
    /\ dedup_done' = TRUE
    /\ UNCHANGED news_items
    /\ UNCHANGED dedupFrame

NextDedup == DeduplicateNews


-----------------------------------------------------------------------------
(* Backtester: Backtester.run.  Floats are modelled as fixed-point numbers *)
(* with a resolution of 1/20000; a product or quotient is rounded to the   *)
(* nearest representable number, as a floating-point operation is.  The    *)
(* Sharpe ratio (a square root of a variance) is not modelled.             *)

MaxRows == 4       \* rows of the price frame, entries of the signal series

Unit == 20000      \* fixed-point 1.0
COST == 39         \* self.fee + self.tax = 0.00015 + 0.0018, in 1/20000

BtCloses  == {80, 100, 125}
BtSignals == {-1, 0, 1}
\* 1000 and 1000.5 currency units
Capitals  == {2000, 2001}

\* int(x): truncation toward zero of n / d, d > 0.
TruncDiv(n, d) == IF n >= 0 THEN n \div d ELSE -((-n) \div d)

\* results['close'].pct_change() at row t > 1.
PctChange(cl, t) == RoundDiv((cl[t] - cl[t - 1]) * Unit, cl[t - 1])

\* Mutant: the cost is charged on every day after the first.
Trade_every_day(sg, t) == t > 1

\* results['trade'] > 0: signal.diff().abs().fillna(0) is positive.
Trade(sg, t) == t > 1 /\ sg[t] # sg[t - 1]

\* Mutant: the cost is charged per unit of position changed.
StrategyReturn_cost_by_size(cl, sg, t) ==
    sg[t - 1] * PctChange(cl, t) - COST * Abs(sg[t] - sg[t - 1])

\* results['strategy_returns'] at row t > 1 (row 1 is NaN).
StrategyReturn(cl, sg, t) ==
    sg[t - 1] * PctChange(cl, t) - (IF Trade(sg, t) THEN COST ELSE 0)

\* strategy_returns.fillna(0)
FilledReturn(cl, sg, t) == IF t = 1 THEN 0 ELSE StrategyReturn(cl, sg, t)

\* (1 + strategy_returns).cumprod() up to row t, with row 1 set to 1.0.
RECURSIVE CumReturns(_, _, _)
CumReturns(cl, sg, t) ==
    IF t = 1 THEN Unit
    ELSE RoundDiv(CumReturns(cl, sg, t - 1) * (Unit + FilledReturn(cl, sg, t)),
                  Unit)

\* results['cum_returns'].cummax() at row t.
RECURSIVE RollingMax(_, _, _)
RollingMax(cl, sg, t) ==
    IF t = 1 THEN CumReturns(cl, sg, 1)
    ELSE Max(RollingMax(cl, sg, t - 1), CumReturns(cl, sg, t))

\* drawdown = cum_returns / rolling_max - 1 at row t.
Drawdown(cl, sg, t) ==
    RoundDiv(CumReturns(cl, sg, t) * Unit, RollingMax(cl, sg, t)) - Unit

\* Mutant: the drawdown reported as a magnitude.
Mdd_magnitude(cl, sg) ==
    -(CHOOSE d \in {Drawdown(cl, sg, t) : t \in DOMAIN cl} :
          \A t \in DOMAIN cl : d <= Drawdown(cl, sg, t))

\* drawdown.min()
Mdd(cl, sg) ==
    CHOOSE d \in {Drawdown(cl, sg, t) : t \in DOMAIN cl} :
        \A t \in DOMAIN cl : d <= Drawdown(cl, sg, t)

\* (strategy_returns > 0).sum() and (strategy_returns != 0).sum(); the NaN
\* of row 1 is not > 0 and is != 0.
WinDays(cl, sg) ==
    Cardinality({t \in DOMAIN cl : t > 1 /\ StrategyReturn(cl, sg, t) > 0})
NonZeroDays(cl, sg) ==
    Cardinality({t \in DOMAIN cl : t = 1 \/ StrategyReturn(cl, sg, t) # 0})

NotRun == [kind |-> "not_run", total_return_pct |-> 0, mdd_pct |-> 0,
           win_rate |-> 0, final_capital |-> 0, daily_results |-> <<>>]

ErrorResult == [kind |-> "error", total_return_pct |-> 0, mdd_pct |-> 0,
                win_rate |-> 0, final_capital |-> 0, daily_results |-> <<>>]

\* Mutant: the inputs are not validated and metrics come back for any input.
run_unchecked(cl, sg, cap) ==
    [kind |-> "metrics", total_return_pct |-> 0, mdd_pct |-> 0,
     win_rate |-> 0, final_capital |-> TruncDiv(cap, 2),
     daily_results |-> [t \in DOMAIN cl |-> Unit]]

\* Backtester.run: percentages in hundredths of a percent, final_capital in
\* whole currency units, daily_results as its cum_returns column.
run(cl, sg, cap) ==
    IF Len(cl) = 0 \/ Len(cl) # Len(sg)
    THEN ErrorResult
    ELSE LET n == Len(cl)
         IN  [kind |-> "metrics",
              total_return_pct |->
                  RoundDiv((CumReturns(cl, sg, n) - Unit) * 10000, Unit),
              mdd_pct |-> RoundDiv(Mdd(cl, sg) * 10000, Unit),
              win_rate |->
                  IF NonZeroDays(cl, sg) > 0
                  THEN RoundDiv(WinDays(cl, sg) * 10000, NonZeroDays(cl, sg))
                  ELSE 0,
              final_capital |->
                  TruncDiv(CumReturns(cl, sg, n) * cap, 2 * Unit),
              daily_results |-> [t \in 1..n |-> CumReturns(cl, sg, t)]]

SeqsUpTo(S, n) == UNION {[1..k -> S] : k \in 0..n}

IdleBacktest ==
    /\ closes = <<>>
    /\ signals = <<>>
    /\ capital = 2000
    /\ bt_result = ErrorResult

InitBacktest ==
    /\ closes \in SeqsUpTo(BtCloses, MaxRows)
    /\ signals \in SeqsUpTo(BtSignals, MaxRows)
    /\ capital \in Capitals
    /\ bt_result = NotRun

\* One call run(df, signals, initial_capital).
RunBacktest ==
    /\ bt_result = NotRun
    /\ bt_result' = run(closes, signals, capital)
    /\ UNCHANGED <<closes, signals, capital>>
    /\ UNCHANGED backtestFrame

NextBacktest == RunBacktest


-----------------------------------------------------------------------------
(* Daily update: scheduler.run_daily_update and the notifier it uses.      *)

MaxDailyRuns == 2      \* calls of run_daily_update

\* What one HTTP post of send_message can do: succeed, fail with a 400
\* answer (after which a Markdown message is retried as plain text, and the
\* retry succeeds or fails), or fail otherwise.
SendOutcomes == {"ok", "400_then_ok", "400_then_fail", "fail"}

\* TelegramNotifier.send_message: the log records it writes and whether the
\* message was delivered.  Every failure of the post is caught inside.
send_message(enabled, parse_mode, post) ==
    IF ~enabled
    THEN [log |-> <<"warning: telegram disabled">>, delivered |-> FALSE]
    ELSE IF post = "ok"
    THEN [log |-> <<"info: telegram sent">>, delivered |-> TRUE]
    ELSE IF post \in {"400_then_ok", "400_then_fail"}
            /\ parse_mode = "Markdown"
    THEN IF post = "400_then_ok"
         THEN [log |-> <<"warning: markdown failed",
                         "info: telegram sent (plain text)">>,
               delivered |-> TRUE]
         ELSE [log |-> <<"warning: markdown failed",
                         "error: telegram failed (plain text)">>,
               delivered |-> FALSE]
    ELSE [log |-> <<"error: telegram failed">>, delivered |-> FALSE]

\* One notifier call appended to the record of the current run.
Sent(sends, kind, res) ==
    Append(sends, [kind |-> kind, delivered |-> res.delivered])

\* Mutant: run_daily_update without its outer try/except.
OuterExcept_missing(log, sends, enabled, post) ==
    [log |-> log, sends |-> sends, raised |-> TRUE]

\* The outer except clause: log the error, send the error message.
OuterExcept(log, sends, enabled, post) ==
    LET res == send_message(enabled, "Markdown", post)
    IN  [log    |-> log \o <<"error: daily update">> \o res.log,
         sends  |-> Sent(sends, "error", res),
         raised |-> FALSE]

IdleDaily ==
    /\ du_pc = "idle"
    /\ du_runs = MaxDailyRuns
    /\ du_log = <<>>
    /\ du_sends = <<>>
    /\ du_recs = 0
    /\ du_raised = FALSE
    /\ telegram_enabled = FALSE

InitDaily ==
    /\ du_pc = "idle"
    /\ du_runs = 0
    /\ du_log = <<>>
    /\ du_sends = <<>>
    /\ du_recs = 0
    /\ du_raised = FALSE
    /\ telegram_enabled \in BOOLEAN

\* run_daily_update is called (line 14).
StartDaily ==
    /\ du_pc = "idle"
    /\ ~du_raised
    /\ du_runs < MaxDailyRuns
    /\ du_runs' = du_runs + 1
    /\ du_pc' = "track"
    /\ du_log' = <<"info: starting">>
    /\ du_sends' = <<>>
    /\ du_recs' = 0
    /\ UNCHANGED <<du_raised, telegram_enabled>>
    /\ UNCHANGED dailyFrame

\* Step 0, the inner try (lines 18-29): record_outcomes raises, or returns
\* 0, or returns a positive count, after which the report is built (which
\* can raise) and sent.
TrackOutcomes(result, post) ==
    /\ du_pc = "track"
    /\ result \in {"raise", "none", "report", "report_raise"}
    /\ result # "report" => post = "ok"
    /\ LET res == send_message(telegram_enabled, "HTML", post)
       IN  /\ du_log' = du_log \o
                  (CASE result = "none" -> <<>>
                     [] result = "report" -> res.log
                     [] OTHER -> <<"warning: outcome tracking failed">>)
                  \o <<"info: updating stock list">>
           /\ du_sends' = IF result = "report"
                          THEN Sent(du_sends, "performance", res)
                          ELSE du_sends
    /\ du_pc' = "stocks"
    /\ UNCHANGED <<du_runs, du_recs, du_raised, telegram_enabled>>
    /\ UNCHANGED dailyFrame

\* Step 1 (lines 32-34): get_stock_list and save_stocks.
UpdateStocks(ok, post) ==
    /\ du_pc = "stocks"
    /\ ok => post = "ok"
    /\ IF ok
       THEN /\ du_log' = Append(du_log, "info: analyzing market")
            /\ du_pc' = "recommend"
            /\ UNCHANGED <<du_sends, du_raised>>
       ELSE LET h == OuterExcept(du_log, du_sends, telegram_enabled, post)
            IN  /\ du_log' = h.log
                /\ du_sends' = h.sends
                /\ du_raised' = h.raised
                /\ du_pc' = "idle"
    /\ UNCHANGED <<du_runs, du_recs, telegram_enabled>>
    /\ UNCHANGED dailyFrame

\* Step 2 (line 39): get_recommendations(limit=5) returns n records, or
\* raises (n = -1).
Recommend(n, post) ==
    /\ du_pc = "recommend"
    /\ n \in -1..1
    /\ n >= 0 => post = "ok"
    /\ IF n >= 0
       THEN /\ du_recs' = n
            /\ du_pc' = "notify"
            /\ UNCHANGED <<du_log, du_sends, du_raised>>
       ELSE LET h == OuterExcept(du_log, du_sends, telegram_enabled, post)
            IN  /\ du_log' = h.log
                /\ du_sends' = h.sends
                /\ du_raised' = h.raised
                /\ du_pc' = "idle"
                /\ UNCHANGED du_recs
    /\ UNCHANGED <<du_runs, telegram_enabled>>
    /\ UNCHANGED dailyFrame

\* Step 3 (lines 42-49): notify_recommendation when there are records; the
\* message is built (which can raise) and sent.
Notify(built, post, post2) ==
    /\ du_pc = "notify"
    /\ (du_recs = 0 \/ ~built) => post = "ok"
    /\ (du_recs = 0 \/ built) => post2 = "ok"
    /\ (du_recs = 0) => built
    /\ IF du_recs = 0
       THEN /\ du_log' = du_log \o <<"info: no recommendations",
                                     "info: completed">>
            /\ UNCHANGED <<du_sends, du_raised>>
       ELSE IF built
       THEN LET res == send_message(telegram_enabled, "HTML", post)
            IN  /\ du_log' = du_log \o <<"info: sending notifications">>
                                 \o res.log \o <<"info: completed">>
                /\ du_sends' = Sent(du_sends, "recommendation", res)
                /\ UNCHANGED du_raised
       ELSE LET h == OuterExcept(
                         Append(du_log, "info: sending notifications"),
                         du_sends, telegram_enabled, post2)
            IN  /\ du_log' = h.log
                /\ du_sends' = h.sends
                /\ du_raised' = h.raised
    /\ du_pc' = "idle"
    /\ UNCHANGED <<du_runs, du_recs, telegram_enabled>>
    /\ UNCHANGED dailyFrame

NextDaily ==
    \/ StartDaily
    \/ \E result \in {"raise", "none", "report", "report_raise"},
          post \in SendOutcomes : TrackOutcomes(result, post)
    \/ \E ok \in BOOLEAN, post \in SendOutcomes : UpdateStocks(ok, post)
    \/ \E n \in -1..1, post \in SendOutcomes : Recommend(n, post)
    \/ \E built \in BOOLEAN, post \in SendOutcomes, post2 \in SendOutcomes :
           Notify(built, post, post2)


-----------------------------------------------------------------------------
(* One cache miss of get_sentiment_score: the items found, the outcomes    *)
(* of the attempts at the reasoning service, and what the miss computes.   *)

NoMiss == [done |-> FALSE, result |-> NoResult, calls |-> 0, waits |-> <<>>]

IdleMiss ==
    /\ news_found = FALSE
    /\ dart_found = FALSE
    /\ service_outs = [k \in 1..MAX_ATTEMPTS |-> [kind |-> "error", raw |-> 0]]
    /\ miss = NoMiss

InitMiss ==
    /\ news_found \in BOOLEAN
    /\ dart_found \in BOOLEAN
    /\ service_outs \in [1..MAX_ATTEMPTS -> AttemptOutcomes]
    /\ miss = NoMiss

\* Cache miss: the result is computed from what was fetched (lines 54-62).
ComputeOnMiss ==
    /\ ~miss.done
    /\ LET t == MissTrace(news_found, dart_found, service_outs)
       IN  miss' = [done |-> TRUE, result |-> t.result, calls |-> t.calls,
                    waits |-> t.waits]
    /\ UNCHANGED <<news_found, dart_found, service_outs>>
    /\ UNCHANGED missFrame

NextMiss == ComputeOnMiss

-----------------------------------------------------------------------------
(* The action / target-price consistency rule of                           *)
(* AnalysisAgent._get_ai_opinion.  Prices are whole won, for which the     *)
(* float products current_price * 0.98 etc. compare and truncate as the    *)
(* integer expressions below do.                                           *)

MaxApplications == 2   \* applications of the rule to one opinion

\* Current prices: none, the smallest, and two around which the
\* thresholds fall on and between whole prices.
CurPrices == {0, 1, 50, 100}

\* Target prices after the conversion to int (0: absent or not a number).
TargetPrices == {0, 1, 2, 45, 46, 48, 49, 51, 52, 91, 92, 97, 98, 102, 103}

OpinionActions == {"BUY", "HOLD", "SELL", "N/A"}

\* Mutant: a BUY target that is too low is itself raised by 3 %.
ConsistencyRule_raise_target(o, current_price) ==
    IF current_price > 0 /\ o.target_price > 0
    THEN IF o.action = "BUY" /\ 100 * o.target_price < 98 * current_price
         THEN [o EXCEPT !.target_price = (103 * o.target_price) \div 100]
         ELSE IF o.action = "HOLD" /\ 100 * o.target_price < 92 * current_price
              THEN [o EXCEPT !.action = "SELL"]
              ELSE IF o.action = "SELL"
                         /\ 100 * o.target_price > 102 * current_price
                   THEN [o EXCEPT !.target_price = (97 * current_price) \div 100]
                   ELSE o
    ELSE o

\* Lines 178-193: tp < current_price * 0.98 etc.; int(current_price * 1.03)
\* and int(current_price * 0.97) truncate.
ConsistencyRule(o, current_price) ==
    IF current_price > 0 /\ o.target_price > 0
    THEN IF o.action = "BUY" /\ 100 * o.target_price < 98 * current_price
         THEN [o EXCEPT !.target_price = (103 * current_price) \div 100]
         ELSE IF o.action = "HOLD" /\ 100 * o.target_price < 92 * current_price
              THEN [o EXCEPT !.action = "SELL"]
              ELSE IF o.action = "SELL"
                         /\ 100 * o.target_price > 102 * current_price
                   THEN [o EXCEPT !.target_price = (97 * current_price) \div 100]
                   ELSE o
    ELSE o

IdleOpinion ==
    /\ cur_price = 0
    /\ opinion = [action |-> "N/A", target_price |-> 0]
    /\ prev_opinion = opinion
    /\ applied = 0

InitOpinion ==
    /\ cur_price \in CurPrices
    /\ opinion \in [action : OpinionActions, target_price : TargetPrices]
    /\ prev_opinion = opinion
    /\ applied = 0

\* The rule is applied to the opinion (lines 178-193).
ApplyConsistencyRule ==
    /\ applied < MaxApplications
    /\ prev_opinion' = opinion
    /\ opinion' = ConsistencyRule(opinion, cur_price)
    /\ applied' = applied + 1
    /\ UNCHANGED cur_price
    /\ UNCHANGED opinionFrame

NextOpinion == ApplyConsistencyRule

-----------------------------------------------------------------------------
(* Strategy signals: TechnicalStrategy.generate_signals over the rsi,      *)
(* macd and macd_signal columns of an indicator frame.                     *)

MaxBars == 2       \* rows of the indicator frame

\* RSI values on and next to the thresholds 40 and 60, and a missing one.
BarRsi == {NaN, 39, 40, 60, 61}

\* macd and macd_signal: one of them missing, equal, below, above.
BarMacd == {<<NaN, 0>>, <<0, NaN>>, <<0, 0>>, <<0, 1>>, <<1, 0>>}

Bars == {[rsi |-> r, macd |-> m[1], macd_signal |-> m[2]] :
            r \in BarRsi, m \in BarMacd}

StrategyTypes == {"RSI", "MACD", "COMPOSITE", "OTHER"}

Lt(a, b) == a # NaN /\ b # NaN /\ a < b

\* if pd.isna(...): continue -- the row the strategy skips.
SkipsRow(b, strategy) ==
    IF strategy = "RSI" THEN b.rsi = NaN
    ELSE IF strategy = "MACD" THEN b.macd = NaN \/ b.macd_signal = NaN
    ELSE IF strategy = "COMPOSITE" THEN b.rsi = NaN \/ b.macd = NaN
    ELSE TRUE

\* Mutant: the RSI thresholds are 30 and 70.
NextPosition_rsi_30_70(b, strategy, position) ==
    IF strategy = "RSI"
    THEN IF Lt(b.rsi, 30) THEN 1 ELSE IF Gt(b.rsi, 70) THEN 0 ELSE position
    ELSE position

\* current_position after a row that is not skipped.
NextPosition(b, strategy, position) ==
    IF strategy = "RSI"
    THEN IF Lt(b.rsi, 40) THEN 1 ELSE IF Gt(b.rsi, 60) THEN 0 ELSE position
    ELSE IF strategy = "MACD"
    THEN IF Gt(b.macd, b.macd_signal) THEN 1
         ELSE IF Lt(b.macd, b.macd_signal) THEN 0 ELSE position
    ELSE IF Lt(b.rsi, 50) /\ Gt(b.macd, b.macd_signal) THEN 1
         ELSE IF Gt(b.rsi, 60) \/ Lt(b.macd, b.macd_signal) THEN 0
         ELSE position

\* The loop over the rows from row i on: a skipped row keeps the 0 the
\* series was created with and leaves current_position alone.
RECURSIVE SignalsFrom(_, _, _, _)
SignalsFrom(df, i, strategy, position) ==
    IF i > Len(df) THEN <<>>
    ELSE IF SkipsRow(df[i], strategy)
         THEN <<0>> \o SignalsFrom(df, i + 1, strategy, position)
         ELSE LET p == NextPosition(df[i], strategy, position)
              IN  <<p>> \o SignalsFrom(df, i + 1, strategy, p)

generate_signals(df, strategy) == SignalsFrom(df, 1, strategy, 0)

IdleSignal ==
    /\ bars = <<>>
    /\ strategy_type = "RSI"
    /\ sig_out = <<<<>>>>

InitSignal ==
    /\ bars \in SeqsUpTo(Bars, MaxBars)
    /\ strategy_type \in StrategyTypes
    /\ sig_out = <<>>

\* One call generate_signals(df, strategy_type).
GenerateSignals ==
    /\ sig_out = <<>>
    /\ sig_out' = <<generate_signals(bars, strategy_type)>>
    /\ UNCHANGED <<bars, strategy_type>>
    /\ UNCHANGED signalFrame

NextSignal == GenerateSignals

-----------------------------------------------------------------------------
(* Stock listing: StockDataProvider.get_stock_list with its 30-minute      *)
(* cache and its 300-second block after a failure.  Time is in seconds; a  *)
(* fetch attempt itself takes no time, the backoff sleeps do.              *)

MaxListCalls == 3      \* calls of get_stock_list
MaxAdvances  == 2      \* times the clock moves on between calls

CACHE_EXPIRE_STOCKS == 1800    \* config.CACHE_EXPIRE_STOCKS
FAIL_BLOCK_SEC      == 300     \* total_seconds() < 300
FETCH_ATTEMPTS      == 3       \* for _attempt in range(3)

\* Seconds that pass between two calls: just below and at the two limits.
Delays == {297, 300, 1797, 1800}

NoTable    == -1       \* self._krx_cache is None
NoTime     == -1       \* a timestamp that is None
EmptyTable == 0        \* pd.DataFrame(columns=['code', 'name', ...])
Listings   == {1, 2}   \* the listings the data source can return

\* The retry loop from attempt k on: an attempt that raises is followed by
\* a sleep of 2 ** _attempt seconds unless it was the last one.
RECURSIVE FetchLoop(_, _, _)
FetchLoop(outs, k, sleeps) ==
    IF k > FETCH_ATTEMPTS
    THEN [ok |-> FALSE, attempts |-> FETCH_ATTEMPTS, sleeps |-> sleeps]
    ELSE IF outs[k] = "ok"
         THEN [ok |-> TRUE, attempts |-> k, sleeps |-> sleeps]
         ELSE FetchLoop(outs, k + 1,
                  IF k < FETCH_ATTEMPTS
                  THEN Append(sleeps, 2 ^ (k - 1)) ELSE sleeps)

\* Lines 33-35: the cached listing is younger than CACHE_EXPIRE_STOCKS.
CacheFresh(now, cache, timestamp) ==
    cache # NoTable /\ timestamp # NoTime
        /\ now - timestamp < CACHE_EXPIRE_STOCKS

\* Mutant: a failure does not block the next fetch.
RetryBlocked_never(now, fail_timestamp) == FALSE

\* Lines 38-39: a call failed less than 300 seconds ago.
RetryBlocked(now, fail_timestamp) ==
    fail_timestamp # NoTime /\ now - fail_timestamp < FAIL_BLOCK_SEC

\* self._krx_cache if it is not None, else the empty table.
CacheOrEmpty(cache) == IF cache = NoTable THEN EmptyTable ELSE cache

InitListing ==
    /\ clock = 0
    /\ krx_cache = NoTable
    /\ krx_timestamp = NoTime
    /\ krx_fail_timestamp = NoTime
    /\ sl_calls = 0
    /\ sl_last = [kind |-> "none", table |-> EmptyTable, attempts |-> 0,
                  sleeps |-> <<>>]
    /\ fail_span = <<>>
    /\ ok_span = <<>>
    /\ advances = 0

\* One call of get_stock_list: outs are the outcomes of the fetch attempts,
\* usable tells whether the fetched frames can be merged, fresh is the
\* listing the data source returns.
GetStockList(outs, usable, fresh) ==
    /\ sl_calls < MaxListCalls
    /\ sl_calls' = sl_calls + 1
    /\ LET now == clock
       IN  IF CacheFresh(now, krx_cache, krx_timestamp)
           THEN /\ sl_last' = [kind |-> "cache", table |-> krx_cache,
                               attempts |-> 0, sleeps |-> <<>>]
                /\ UNCHANGED <<clock, krx_cache, krx_timestamp,
                               krx_fail_timestamp, fail_span, ok_span>>
           ELSE IF RetryBlocked(now, krx_fail_timestamp)
           THEN /\ sl_last' = [kind |-> "blocked",
                               table |-> CacheOrEmpty(krx_cache),
                               attempts |-> 0, sleeps |-> <<>>]
                /\ UNCHANGED <<clock, krx_cache, krx_timestamp,
                               krx_fail_timestamp, fail_span, ok_span>>
           ELSE LET f == FetchLoop(outs, 1, <<>>)
                    finish == now + 2 ^ Len(f.sleeps) - 1
                IN  /\ clock' = finish
                    /\ IF f.ok /\ usable
                       THEN /\ krx_cache' = fresh
                            /\ krx_timestamp' = now
                            /\ sl_last' = [kind |-> "fetched", table |-> fresh,
                                           attempts |-> f.attempts,
                                           sleeps |-> f.sleeps]
                            /\ ok_span' = <<now, finish>>
                            /\ UNCHANGED <<krx_fail_timestamp, fail_span>>
                       ELSE /\ krx_fail_timestamp' = now
                            /\ sl_last' = [kind |-> "failed",
                                           table |-> CacheOrEmpty(krx_cache),
                                           attempts |-> f.attempts,
                                           sleeps |-> f.sleeps]
                            /\ fail_span' = <<now, finish>>
                            /\ UNCHANGED <<krx_cache, krx_timestamp, ok_span>>
    /\ UNCHANGED advances
    /\ UNCHANGED listingFrame

\* Time passes between two calls.
Advance(d) ==
    /\ advances < MaxAdvances
    /\ advances' = advances + 1
    /\ clock' = clock + d
    /\ UNCHANGED <<krx_cache, krx_timestamp, krx_fail_timestamp, sl_calls,
                   sl_last, fail_span, ok_span>>
    /\ UNCHANGED listingFrame

NextListing ==
    \/ \E outs \in [1..FETCH_ATTEMPTS -> {"ok", "error"}],
          usable \in BOOLEAN, fresh \in Listings :
           GetStockList(outs, usable, fresh)
    \/ \E d \in Delays : Advance(d)

-----------------------------------------------------------------------------
(* POST /recommendations/run: the endpoint run_recommendations and the     *)
(* background task _run_analysis it schedules.  The server runs the        *)
(* endpoint and, after the response has been sent, the background task on  *)
(* threads of its pool.                                                    *)

MaxRequests == 3       \* POST /recommendations/run requests

Requests == 1..MaxRequests

Active == {r \in Requests : task[r] \in {"scheduled", "running"}}

IdleRun ==
    /\ running_flag = FALSE
    /\ task = [r \in Requests |-> "done"]
    /\ reply = [r \in Requests |-> "closed"]
    /\ saved_today = FALSE

InitRun ==
    /\ running_flag = FALSE
    /\ task = [r \in Requests |-> "none"]
    /\ reply = [r \in Requests |-> "none"]
    /\ saved_today = FALSE

\* run_recommendations handles request r (lines 68-92).
RunRecommendations(r, force) ==
    /\ reply[r] = "none"
    /\ IF running_flag
       THEN /\ reply' = [reply EXCEPT ![r] = "already_running"]
            /\ UNCHANGED task
       ELSE IF ~force /\ saved_today
       THEN /\ reply' = [reply EXCEPT ![r] = "cached"]
            /\ UNCHANGED task
       ELSE /\ reply' = [reply EXCEPT ![r] = "started"]
            /\ task' = [task EXCEPT ![r] = "scheduled"]
    /\ UNCHANGED <<running_flag, saved_today>>
    /\ UNCHANGED runFrame

\* The background task of request r starts: _running = True (line 17).
BeginAnalysis(r) ==
    /\ task[r] = "scheduled"
    /\ task' = [task EXCEPT ![r] = "running"]
    /\ running_flag' = TRUE
    /\ UNCHANGED <<reply, saved_today>>
    /\ UNCHANGED runFrame

\* get_recommendations of request r returns after saving, returns nothing,
\* or raises; the finally clause clears the flag (lines 18-28).
EndAnalysis(r, saved) ==
    /\ task[r] = "running"
    /\ task' = [task EXCEPT ![r] = "done"]
    /\ running_flag' = FALSE
    /\ saved_today' = (saved_today \/ saved)
    /\ UNCHANGED reply
    /\ UNCHANGED runFrame

NextRun ==
    \/ \E r \in Requests, force \in BOOLEAN : RunRecommendations(r, force)
    \/ \E r \in Requests : BeginAnalysis(r)
    \/ \E r \in Requests, saved \in BOOLEAN : EndAnalysis(r, saved)

-----------------------------------------------------------------------------

IdleMore ==
    /\ IdleMiss
    /\ IdleOpinion
    /\ IdleSignal
    /\ InitListing

IdleUtil ==
    /\ IdleDedup
    /\ IdleBacktest
    /\ IdleDaily
    /\ IdleRun
    /\ IdleMore

-----------------------------------------------------------------------------
(* Specifications: one per component; the other components stay idle.      *)

\* The state after construction of every component.
Init ==
    /\ InitComposer
    /\ InitSentiment
    /\ IdleOutcome
    /\ IdleScore
    /\ IdlePredict
    /\ IdleIndicator
    /\ IdleUtil

\* The composer and the sentiment service idle; a pair of results to score.
InitScoreSpec ==
    /\ InitComposer
    /\ InitSentiment
    /\ IdleOutcome
    /\ InitScore
    /\ IdlePredict
    /\ IdleIndicator
    /\ IdleUtil

\* The other components idle; models and arguments for one predict call.
InitPredictSpec ==
    /\ InitComposer
    /\ InitSentiment
    /\ IdleOutcome
    /\ IdleScore
    /\ InitPredict
    /\ IdleIndicator
    /\ IdleUtil

\* The other components idle; one indicator frame to score.
InitIndicatorSpec ==
    /\ InitComposer
    /\ InitSentiment
    /\ IdleOutcome
    /\ IdleScore
    /\ IdlePredict
    /\ InitIndicator
    /\ IdleUtil

\* The other components idle; the recommendations the tracker will find.
InitOutcomeSpec ==
    /\ InitComposer
    /\ InitSentiment
    /\ InitOutcome
    /\ IdleScore
    /\ IdlePredict
    /\ IdleIndicator
    /\ IdleUtil

\* The pipeline components in their constructed state.
IdleCore ==
    /\ InitComposer
    /\ InitSentiment
    /\ IdleOutcome
    /\ IdleScore
    /\ IdlePredict
    /\ IdleIndicator

\* The other components idle; one list of news items to deduplicate.
InitDedupSpec ==
    /\ IdleCore
    /\ InitDedup
    /\ IdleBacktest
    /\ IdleDaily
    /\ IdleRun
    /\ IdleMore

\* The other components idle; one frame, signal series and capital.
InitBacktestSpec ==
    /\ IdleCore
    /\ IdleDedup
    /\ InitBacktest
    /\ IdleDaily
    /\ IdleRun
    /\ IdleMore

\* The other components idle; the scheduler about to be run.
InitDailySpec ==
    /\ IdleCore
    /\ IdleDedup
    /\ IdleBacktest
    /\ InitDaily
    /\ IdleRun
    /\ IdleMore

\* The other components idle; the API server has just started.
InitRunSpec ==
    /\ IdleCore
    /\ IdleDedup
    /\ IdleBacktest
    /\ IdleDaily
    /\ InitRun
    /\ IdleMore

\* The pipeline and the utilities in their constructed state.
IdleBase ==
    /\ IdleCore
    /\ IdleDedup
    /\ IdleBacktest
    /\ IdleDaily
    /\ IdleRun

\* The other components idle; one cache miss to compute.
InitMissSpec ==
    /\ IdleBase
    /\ InitMiss
    /\ IdleOpinion
    /\ IdleSignal
    /\ InitListing

\* The other components idle; one opinion and the current price.
InitOpinionSpec ==
    /\ IdleBase
    /\ IdleMiss
    /\ InitOpinion
    /\ IdleSignal
    /\ InitListing

\* The other components idle; one indicator frame and a strategy.
InitSignalSpec ==
    /\ IdleBase
    /\ IdleMiss
    /\ IdleOpinion
    /\ InitSignal
    /\ InitListing

\* The other components idle; the data provider has just been constructed.
InitListingSpec ==
    /\ IdleBase
    /\ IdleMiss
    /\ IdleOpinion
    /\ IdleSignal
    /\ InitListing

SpecComposer  == Init /\ [][NextComposer]_vars
SpecSentiment == Init /\ [][NextSentiment]_vars
SpecScore     == InitScoreSpec /\ [][NextScore]_vars
SpecPredict   == InitPredictSpec /\ [][NextPredict]_vars
SpecIndicator == InitIndicatorSpec /\ [][NextIndicator]_vars
SpecOutcome   == InitOutcomeSpec /\ [][NextOutcome]_vars
SpecDedup     == InitDedupSpec /\ [][NextDedup]_vars
SpecBacktest  == InitBacktestSpec /\ [][NextBacktest]_vars
SpecDaily     == InitDailySpec /\ [][NextDaily]_vars
SpecRun       == InitRunSpec /\ [][NextRun]_vars
SpecMiss      == InitMissSpec /\ [][NextMiss]_vars
SpecOpinion   == InitOpinionSpec /\ [][NextOpinion]_vars
SpecSignal    == InitSignalSpec /\ [][NextSignal]_vars
SpecListing   == InitListingSpec /\ [][NextListing]_vars

-----------------------------------------------------------------------------
(* Claims *)

\* C1: After any sequence of composer runs the table holds at most one row
\* per (code, session date), and after a run that saved, each selected
\* entity's single row for the session date carries that run's score and
\* action, whatever an earlier run had stored for it.
C1_OneRowPerKey ==
    /\ \A c \in Codes, d \in 1..MaxDay :
           CountRows(store, RowsFor(store, c, d)) <= 1
    /\ (phase = "returned" /\ returned # <<>>) =>
           \A k \in DOMAIN returned :
               LET rows == RowsFor(store, returned[k].code, saveDate)
               IN  /\ CountRows(store, rows) = 1
                   /\ \A r \in rows :
                          /\ r.score = RoundedComposite(returned[k])
                          /\ r.type = returned[k].action

\* A second run on the same date has replaced a row that carried another score.
C1_Witness ==
    /\ phase = "returned"
    /\ runs = 2
    /\ replaced # {}

\* C2: In one run the results list holds exactly one entry, the task's own
\* result, for each candidate whose analysis returned a result, and none for
\* a candidate whose analysis raised or returned an error; and a run in which
\* some candidate succeeded and the save committed returns and stores a
\* non-empty selection.
C2_FailureIsolated ==
    /\ \A i \in DOMAIN cands :
           LET entries == {k \in DOMAIN results : results[k].code = cands[i]}
           IN  IF futState[i] = "result"
               THEN /\ Cardinality(entries) = 1
                    /\ \A k \in entries :
                           results[k] = WithCode(cands[i], futVal[i])
               ELSE entries = {}
    /\ (phase = "returned" /\ \E i \in DOMAIN cands : futState[i] = "result") =>
           /\ returned # <<>>
           /\ \A k \in DOMAIN returned :
                  RowsFor(store, returned[k].code, saveDate) # {}

\* One candidate failed, another succeeded, and the run returned a selection.
C2_Witness ==
    /\ phase = "returned"
    /\ returned # <<>>
    /\ \E i, j \in DOMAIN cands :
           futState[i] = "none" /\ futState[j] = "result"

\* C3 (as claimed): a candidate whose analysis took longer than the 60 s
\* timeout has no entry in the results of the run.
C3_LateTaskExcluded ==
    \A i \in late : \A k \in DOMAIN results : results[k].code # cands[i]


\* C4 (as claimed): once a call has returned a result for a key, every call
\* for that key that begins later returns that same result, also when misses
\* for the key ran concurrently and also across a process restart.
C4_AlwaysSameResult ==
    \A c \in Callers :
        (pc[c] = "done" /\ after[c]) => sres[c] = firstRet[key[c]]

\* C4 (amended): once a call has returned a result for a key, every call for
\* that key that begins later returns that same result, also across a process
\* restart that empties tier 1, provided no two calls that missed both tiers
\* for the key overlapped and no restart fell between a call's tier-1 write
\* and its tier-2 write.
C4_SameResultUnlessRaced ==
    \A c \in Callers :
        (pc[c] = "done" /\ after[c] /\ ~torn[key[c]]) =>
            sres[c] = firstRet[key[c]]

\* After a restart emptied tier 1, a later call found the computed result in
\* tier 2 and returned the result the first call had returned.
C4_Witness ==
    \E c \in Callers :
        /\ pc[c] = "done" /\ after[c] /\ ~torn[key[c]]
        /\ tier[c] = "l2"
        /\ firstRet[key[c]].reason = "ai"
        /\ sres[c] = firstRet[key[c]]


\* C6: two analysis results that agree on tech_score and sentiment_score and
\* both have ml_model_count = 0 get the same composite score whatever their
\* ml_score, hence the same persisted score and the same top-1 choice against
\* any rival.
C6_MlScoreIgnored ==
    (/\ outX.scored
     /\ resX.ml_model_count = 0 /\ resY.ml_model_count = 0
     /\ resX.tech_score = resY.tech_score
     /\ resX.sentiment_score = resY.sentiment_score) =>
        /\ outX.composite = outY.composite
        /\ outX.persisted = outY.persisted
        /\ outX.top = outY.top

\* Two scored results without models that differ in ml_score only.
C6_Witness ==
    /\ outX.scored
    /\ resX.ml_model_count = 0 /\ resY.ml_model_count = 0
    /\ resX.tech_score = resY.tech_score
    /\ resX.sentiment_score = resY.sentiment_score
    /\ resX.ml_score # resY.ml_score
    /\ outX.top = "X"


\* C7 (as claimed): with a valid feature row and no model producing a
\* prediction, model_count is 0 and the score equals clip(fallback, 0, 100)
\* tagged as the technical-score fallback when a fallback is supplied, and
\* the clipped heuristic tagged as the heuristic fallback otherwise; a result
\* produced by at least one model never has model_count = 0.
C7_FallbackExact ==
    (prediction # NoPrediction /\ features.valid) =>
        IF \A n \in Range(ModelNames) : models[n].kind # "ok"
        THEN /\ prediction.model_count = 0
             /\ IF fallback_score # NoFallback
                THEN /\ prediction.note = "fallback_to_tech_score"
                     /\ prediction.ensemble_score * 10
                            = Clip(fallback_score, 0, 100000)
                ELSE /\ prediction.note = "fallback_heuristic"
                     /\ prediction.ensemble_score * 10
                            = Clip(Heuristic(features), 0, 100000)
        ELSE prediction.model_count # 0

\* C7 (amended): as above, but the score is the clipped fallback, or the
\* clipped heuristic, rounded to two decimals: it is a whole number of
\* hundredths at most half a hundredth away from the clipped value.
C7_FallbackRounded ==
    (prediction # NoPrediction /\ features.valid) =>
        IF \A n \in Range(ModelNames) : models[n].kind # "ok"
        THEN /\ prediction.model_count = 0
             /\ IF fallback_score # NoFallback
                THEN /\ prediction.note = "fallback_to_tech_score"
                     /\ 2 * Abs(prediction.ensemble_score * 10
                                - Clip(fallback_score, 0, 100000)) <= 10
                ELSE /\ prediction.note = "fallback_heuristic"
                     /\ 2 * Abs(prediction.ensemble_score * 10
                                - Clip(Heuristic(features), 0, 100000)) <= 10
        ELSE prediction.model_count # 0

\* A loaded model raised, no fallback was supplied, and the heuristic score
\* was rounded to a value other than the clipped heuristic.
C7_Witness ==
    /\ prediction # NoPrediction
    /\ features.valid
    /\ \E n \in Range(ModelNames) : models[n].kind = "raises"
    /\ \A n \in Range(ModelNames) : models[n].kind # "ok"
    /\ fallback_score = NoFallback
    /\ prediction.note = "fallback_heuristic"
    /\ prediction.ensemble_score * 10 # Clip(Heuristic(features), 0, 100000)

\* C8 (as claimed): with at least one model producing a prediction the score
\* equals clip(sum(p_i * w_i) / sum(w_i), 0, 100) over exactly the producing
\* models, every weight is positive, the score lies between the smallest and
\* the largest clipped member prediction, and model_count counts exactly the
\* producing models.
C8_ExactWeightedAverage ==
    LET ok  == {n \in Range(ModelNames) : models[n].kind = "ok"}
        T(n) == IF n \in ok THEN models[n].p * ModelWeight(models[n]) ELSE 0
        W(n) == IF n \in ok THEN ModelWeight(models[n]) ELSE 0
        num == T(ModelNames[1]) + T(ModelNames[2]) + T(ModelNames[3])
        den == W(ModelNames[1]) + W(ModelNames[2]) + W(ModelNames[3])
    IN  (prediction # NoPrediction /\ features.valid /\ ok # {}) =>
            /\ \A n \in ok : ModelWeight(models[n]) > 0
            /\ prediction.model_count = Cardinality(ok)
            /\ prediction.ensemble_score * 10 * den
                   = Clip(num, 0, 100000 * den)
            /\ \E n \in ok : Clip(models[n].p, 0, 100000)
                                 <= prediction.ensemble_score * 10
            /\ \E n \in ok : Clip(models[n].p, 0, 100000)
                                 >= prediction.ensemble_score * 10

\* C8 (amended): the score is that clipped weighted average rounded to two
\* decimals, so it lies between the smallest and the largest member
\* prediction, each clipped to [0,100] and rounded to two decimals.
C8_RoundedWeightedAverage ==
    LET ok  == {n \in Range(ModelNames) : models[n].kind = "ok"}
        T(n) == IF n \in ok THEN models[n].p * ModelWeight(models[n]) ELSE 0
        W(n) == IF n \in ok THEN ModelWeight(models[n]) ELSE 0
        num == T(ModelNames[1]) + T(ModelNames[2]) + T(ModelNames[3])
        den == W(ModelNames[1]) + W(ModelNames[2]) + W(ModelNames[3])
    IN  (prediction # NoPrediction /\ features.valid /\ ok # {}) =>
            /\ \A n \in ok : ModelWeight(models[n]) > 0
            /\ prediction.model_count = Cardinality(ok)
            /\ 2 * Abs(prediction.ensemble_score * 10 * den
                       - Clip(num, 0, 100000 * den)) <= 10 * den
            /\ \E n \in ok : RoundDiv(Clip(models[n].p, 0, 100000), 10)
                                 <= prediction.ensemble_score
            /\ \E n \in ok : RoundDiv(Clip(models[n].p, 0, 100000), 10)
                                 >= prediction.ensemble_score

\* Two models with different weights predicted different values, a third
\* raised, and the weighted average was not a whole number of hundredths.
C8_Witness ==
    /\ prediction # NoPrediction
    /\ features.valid
    /\ prediction.model_count = 2
    /\ \E n \in Range(ModelNames) : models[n].kind = "raises"
    /\ \E n, m \in Range(ModelNames) :
           /\ models[n].kind = "ok" /\ models[m].kind = "ok"
           /\ models[n].p # models[m].p
           /\ ModelWeight(models[n]) # ModelWeight(models[m])
           /\ Clip(models[n].p, 0, 100000) < prediction.ensemble_score * 10
           /\ prediction.ensemble_score * 10 < Clip(models[m].p, 0, 100000)


\* C9: for every indicator row get_composite_score returns a value in
\* [0,100] that is the sum of a trend part of at most 40, a momentum part of
\* at most 30 and a position-plus-volume part of at most 30; an empty frame
\* scores within [0,100] as well.
C9_ScoreInRange ==
    tech_score # NotComputed =>
        /\ 0 <= tech_score /\ tech_score <= 100
        /\ ~latest.empty =>
               /\ tech_score
                      = TrendScore(latest) + MomScore(latest) + VolScore(latest)
               /\ 0 <= TrendScore(latest) /\ TrendScore(latest) <= 40
               /\ 0 <= MomScore(latest) /\ MomScore(latest) <= 30
               /\ 0 <= VolScore(latest) /\ VolScore(latest) <= 30

\* A row with SMA60 present, MACD above its signal, RSI on a tier boundary,
\* the close on a zone boundary and a volume surge reaches the maximum.
C9_Witness ==
    /\ tech_score = 100
    /\ latest.sma_60 # NaN
    /\ latest.rsi = 6500
    /\ latest.close = 10750
    /\ latest.vol = <<150, 100>>


\* C5: once the price, return and correctness of a horizon of an outcome
\* record are set, no step of any later run changes them, whatever the data
\* source answers later; and a record whose 20-day outcome is set is not
\* among the rows a later run selects.
C5_HorizonWriteOnce ==
    /\ [][\A c \in Range(OCodes), i \in 1..3 :
              outcomes[c].h[i].price # NoPrice =>
                  outcomes'[c].h[i] = outcomes[c].h[i]]_vars
    /\ [](\A k \in DOMAIN queue :
              outcomes[queue[k].code].h[3].correct = NoFlag)
    /\ [](\A c \in Range(OCodes), i \in 1..3 :
              (outcomes[c].h[i].price = NoPrice)
                  <=> (outcomes[c].h[i].correct = NoFlag))

\* A run after the one that recorded the 20-day outcome is under way, and
\* an earlier run left a recorded horizon alone although the data source
\* answered another price.
C5_Witness ==
    /\ oPhase = "running"
    /\ doneAt > 0 /\ runNo > doneAt
    /\ ignored # {}
    /\ \A i \in 1..3 : outcomes[OCodes[1]].h[i].price # NoPrice

\* C10: the correctness recorded for a horizon is 1 exactly when the action
\* is BUY and the realized return is above 0 %, or SELL and below 0 %, or
\* HOLD and above -5 %, and 0 otherwise.
C10_CorrectnessRule ==
    \A c \in Range(OCodes), i \in 1..3 :
        LET o == outcomes[c]
            gain == o.h[i].price - recs[c].entry_price
        IN  o.h[i].price # NoPrice =>
                /\ o.h[i].correct \in {0, 1}
                /\ o.h[i].correct = 1 <=>
                       \/ o.action = "BUY" /\ gain > 0
                       \/ o.action = "SELL" /\ gain < 0
                       \/ o.action = "HOLD"
                              /\ 100 * gain > -5 * recs[c].entry_price

\* A HOLD recorded as incorrect at exactly -5 % and as correct just above.
C10_Witness ==
    LET o == outcomes[OCodes[1]]
    IN  /\ o.action = "HOLD"
        /\ o.h[1].price = 95000 /\ o.h[1].correct = 0
        /\ o.h[2].price = 95001 /\ o.h[2].correct = 1
        /\ o.h[3].price = 100000 /\ o.h[3].correct = 1


\* Positions of the list's items whose source domain is d.
OfDomain(d) == {i \in DOMAIN news_items : Domain(news_items[i]) = d}

NewsDomains == {Domain(news_items[i]) : i \in DOMAIN news_items} \ {""}

FirstPassSurvivors(d) == Range(kept1) \cap OfDomain(d)

NewestFirst ==
    \A i, j \in DOMAIN news_items :
        i < j => news_items[i].pubDate >= news_items[j].pubDate

Tokens(i) == tokenize(news_items[i].title)

\* Items i and j are near-duplicates by title.
NearDup(i, j) ==
    /\ Tokens(i) # {}
    /\ Tokens(j) # {}
    /\ Similar(Tokens(i), Tokens(j))

\* C12 (as stated): after _deduplicate_news no two surviving items with
\* non-empty token sets have a Jaccard similarity above 0.75, and of two
\* items from different domains whose titles are that similar exactly one
\* survives, the one that comes first in the list.
C12_ExactlyFirstSurvives ==
    dedup_done =>
        /\ \A i, j \in Range(kept2) : i # j => ~NearDup(i, j)
        /\ \A i, j \in Range(kept1) :
               (i < j /\ Domain(news_items[i]) # ""
                      /\ Domain(news_items[j]) # ""
                      /\ Domain(news_items[i]) # Domain(news_items[j])
                      /\ NearDup(i, j))
                   => (i \in Range(kept2) /\ j \notin Range(kept2))

\* C12 (amended): after _deduplicate_news no two surviving items with
\* non-empty token sets have a Jaccard similarity above 0.75; an item that
\* passed the first pass survives exactly when it is no near-duplicate of an
\* item kept before it, so of two near-duplicates at most one survives and
\* the later one never survives the earlier one; and when the list consists
\* of just two near-duplicates from different domains, the first survives
\* and the second does not.
C12_AtMostOneSurvives ==
    dedup_done =>
        /\ \A i, j \in Range(kept2) : i # j => ~NearDup(i, j)
        /\ Range(kept2) \subseteq Range(kept1)
        /\ \A j \in Range(kept1) :
               j \in Range(kept2) <=>
                   ~\E i \in Range(kept2) : i < j /\ NearDup(i, j)
        /\ \A i, j \in Range(kept1) :
               (i < j /\ NearDup(i, j) /\ i \in Range(kept2))
                   => j \notin Range(kept2)
        /\ (/\ Len(news_items) = 2
            /\ Domain(news_items[1]) # ""
            /\ Domain(news_items[2]) # ""
            /\ Domain(news_items[1]) # Domain(news_items[2])
            /\ NearDup(1, 2)) => kept2 = <<1>>
        /\ news_final = Select(news_items, kept2)
        /\ \A k \in DOMAIN kept2 : k > 1 => kept2[k - 1] < kept2[k]

\* Three items from three domains have been deduplicated: the third shares
\* four of five title tokens with the first and is dropped, although it is
\* no near-duplicate of the second, the item kept last before it.
C12_Witness ==
    /\ dedup_done
    /\ Len(news_items) = 3
    /\ kept1 = <<1, 2, 3>>
    /\ Cardinality({Domain(news_items[i]) : i \in 1..3}) = 3
    /\ NearDup(1, 3)
    /\ ~NearDup(2, 3)
    /\ Tokens(2) # {}
    /\ kept2 = <<1, 2>>


\* C13: if a write of a batch raises, however many of the batch's records
\* were already deleted or inserted, the table afterwards is exactly the
\* table before the batch: every row that existed is still present and no
\* row of the batch is, and the exception leaves the run with no result.
C13_FailedBatchLeavesNoChange ==
    [][(phase = "analyzing" /\ phase' = "raised") =>
          /\ store' = store
          /\ txn'.failed \in 1..Len(results')
          /\ returned' = <<>>]_vars

\* A write raised after the batch had already changed rows, among them the
\* row its first record had for today from an earlier run; that row is in
\* the table again.
C13_Witness ==
    /\ phase = "raised"
    /\ txn.dirty
    /\ \E r \in BagToSet(store) :
           /\ r.session_date = saveDate
           /\ r.code = results[1].code
           /\ r.score # RoundedComposite(results[1])


\* final_recs of the run whose save has been attempted.
FinalRecs == SubSeq(results, 1, Min(limit, Len(results)))

\* Records of the batch whose serialization or write failed.
SaveFailures ==
    {k \in DOMAIN FinalRecs : ~FinalRecs[k].serializable}
        \cup (IF txn.failed # 0 THEN {txn.failed} ELSE {})

\* C14: when serializing or writing one record of a batch fails, only that
\* record is skipped: no row is written for it, every other record of the
\* batch has its row, and get_recommendations returns its result.
C14_OnlyFailedRecordSkipped ==
    (saveDate # 0 /\ Cardinality(SaveFailures) = 1) =>
        /\ phase = "returned"
        /\ returned = FinalRecs
        /\ \A k \in DOMAIN FinalRecs :
               IF k \in SaveFailures
               THEN Row(FinalRecs[k], saveDate) \notin BagToSet(store)
               ELSE Row(FinalRecs[k], saveDate) \in BagToSet(store)


ValidBacktestInput == Len(closes) > 0 /\ Len(closes) = Len(signals)

\* C15: Backtester.run returns the error result, and raises nothing, when
\* the price series is empty or its length differs from the length of the
\* signal series, and returns the metrics without an error field for a
\* non-empty price series and a signal series of the same length.
C15_InputContract ==
    bt_result # NotRun =>
        /\ bt_result.kind \in {"error", "metrics"}
        /\ bt_result.kind = "error" <=> ~ValidBacktestInput
        /\ bt_result.kind = "metrics" <=> ValidBacktestInput
        /\ bt_result.kind = "error" => bt_result = ErrorResult

\* run was called with three prices and two signals and returned the error
\* result.
C15_Witness ==
    /\ Len(closes) = 3
    /\ Len(signals) = 2
    /\ bt_result.kind = "error"

AllFlat == \A t \in DOMAIN signals : signals[t] = 0

\* C16 (as stated): for a non-empty price series and an all-zero signal
\* series of the same length, total_return_pct is 0 and final_capital
\* equals the initial capital.
C16_FlatKeepsCapital ==
    (bt_result # NotRun /\ ValidBacktestInput /\ AllFlat) =>
        /\ bt_result.total_return_pct = 0
        /\ 2 * bt_result.final_capital = capital

\* C16 (amended): for a non-empty price series and an all-zero signal series
\* of the same length, total_return_pct is 0, mdd_pct is 0 and final_capital
\* is the initial capital truncated to a whole number, which equals the
\* initial capital exactly when that is a whole number.
C16_FlatKeepsTruncatedCapital ==
    (bt_result # NotRun /\ ValidBacktestInput /\ AllFlat) =>
        /\ bt_result.kind = "metrics"
        /\ bt_result.total_return_pct = 0
        /\ bt_result.mdd_pct = 0
        /\ bt_result.final_capital = TruncDiv(capital, 2)
        /\ (2 * bt_result.final_capital = capital) <=> (capital % 2 = 0)

\* Flat signals over prices that rise and fall, with a capital of 1000.5:
\* the run reports a return of 0 and a final capital of 1000.
C16_Witness ==
    /\ bt_result.kind = "metrics"
    /\ AllFlat
    /\ Len(closes) = MaxRows
    /\ \E t \in 2..Len(closes) : closes[t] > closes[t - 1]
    /\ \E t \in 2..Len(closes) : closes[t] < closes[t - 1]
    /\ capital = 2001
    /\ bt_result.total_return_pct = 0
    /\ bt_result.final_capital = 1000

\* C17: every valid run, with positive prices and signals in {-1, 0, 1},
\* reports a maximum drawdown mdd_pct <= 0.
C17_MddNonPositive ==
    bt_result.kind = "metrics" => bt_result.mdd_pct <= 0

\* A run with long and short positions whose equity fell below its earlier
\* peak after a gain: the reported drawdown is negative.
C17_Witness ==
    /\ bt_result.kind = "metrics"
    /\ 1 \in Range(signals)
    /\ -1 \in Range(signals)
    /\ bt_result.mdd_pct < 0
    /\ \E t \in DOMAIN closes : CumReturns(closes, signals, t) > Unit


DailyLog == Range(du_log)

\* A call of run_daily_update has ended.
DailyFinished == du_pc = "idle" /\ du_log # <<>>

\* C18: run_daily_update never raises.  A failure of outcome tracking is
\* logged and the stock-list update follows it, and so does the
\* recommendation run unless the stock-list update fails; a notification
\* that cannot be delivered is only logged and the run completes; a failure
\* of any other step ends the run with a logged error and an error
\* notification sent through the notifier, not with an exception.
C18_DailyUpdateNeverRaises ==
    /\ ~du_raised
    /\ "warning: outcome tracking failed" \in DailyLog
           => "info: updating stock list" \in DailyLog
    /\ (du_pc \in {"recommend", "notify"})
           => "info: analyzing market" \in DailyLog
    /\ DailyFinished =>
           /\ ("info: completed" \in DailyLog)
                  # ("error: daily update" \in DailyLog)
           /\ "error: daily update" \in DailyLog <=>
                  (/\ du_sends # <<>>
                   /\ du_sends[Len(du_sends)].kind = "error")
           /\ (\E k \in DOMAIN du_sends :
                   du_sends[k].kind = "recommendation")
                  => "info: completed" \in DailyLog
           /\ \A k \in DOMAIN du_sends :
                  (telegram_enabled /\ ~du_sends[k].delivered) =>
                      \/ "error: telegram failed" \in DailyLog
                      \/ "error: telegram failed (plain text)" \in DailyLog

\* Outcome tracking failed, the stock list was updated, the recommendation
\* run then failed and the error notification could not be delivered: the
\* call has ended with the error logged and without an exception.
C18_Witness ==
    /\ DailyFinished
    /\ "warning: outcome tracking failed" \in DailyLog
    /\ "info: analyzing market" \in DailyLog
    /\ "error: daily update" \in DailyLog
    /\ telegram_enabled
    /\ du_sends = <<[kind |-> "error", delivered |-> FALSE]>>
    /\ ~du_raised


\* C19: at most one background analysis started through
\* POST /recommendations/run is scheduled or running at any time, because
\* from the answer 'started' until the analysis ends every further request
\* is answered 'already_running' and starts nothing.
C19_AtMostOneAnalysis == Cardinality(Active) <= 1


\* C20: a call of get_sentiment_score looks its key up in tier 1 first and
\* goes on to tier 2 only when tier 1 has no entry; it fetches and analyses
\* only after tier 2 had no entry either; a tier-2 hit is copied into tier 1
\* and returned; on a miss the computed result is stored in tier 1, then in
\* tier 2, and only then returned.
C20_LookupOrder ==
    [][\A c \in Callers :
         /\ (pc[c] # "l2" /\ pc'[c] = "l2") =>
                /\ pc[c] = "idle"
                /\ l1[key'[c]] = NoResult
         /\ (pc[c] = "idle" /\ pc'[c] = "done") =>
                /\ l1[key'[c]] # NoResult
                /\ sres'[c] = l1[key'[c]]
                /\ tier'[c] = "l1"
         /\ (pc[c] # "fetch" /\ pc'[c] = "fetch") =>
                /\ pc[c] = "l2"
                /\ get_sentiment_cache(l2, key[c]) = NoResult
         /\ (pc[c] = "l2" /\ pc'[c] = "done") =>
                /\ get_sentiment_cache(l2, key[c]) # NoResult
                /\ sres'[c] = get_sentiment_cache(l2, key[c])
                /\ l1'[key[c]] = sres'[c]
                /\ tier'[c] = "l2"
         /\ (pc[c] = "l2" /\ get_sentiment_cache(l2, key[c]) # NoResult)
                => pc'[c] \in {"l2", "done", "idle"}
         /\ (pc[c] # "w1" /\ pc'[c] = "w1") =>
                /\ pc[c] = "fetch"
                /\ sres'[c] \in ComputedResults
         /\ (pc[c] # "w2" /\ pc'[c] = "w2") =>
                /\ pc[c] = "w1"
                /\ l1'[key[c]] = sres[c]
                /\ sres'[c] = sres[c]
         /\ (pc[c] \notin {"idle", "l2", "done"} /\ pc'[c] = "done") =>
                /\ pc[c] = "w2"
                /\ get_sentiment_cache(l2', key[c]) = sres[c]
                /\ sres'[c] = sres[c]
                /\ tier'[c] = "computed"
      ]_vars

\* After a restart emptied tier 1, a call found its key in tier 2: it
\* returns that entry, which is in tier 1 again, without having fetched.
C20_Witness ==
    \E c \in Callers :
        /\ pc[c] = "done"
        /\ tier[c] = "l2"
        /\ sres[c] # NoResult
        /\ l1[key[c]] = sres[c]
        /\ get_sentiment_cache(l2, key[c]) = sres[c]

\* C21: record_outcomes handles the horizons of a record in the order 5,
\* 10, 20 trading days and stops at the first one whose price is not yet
\* available: in every store state an outcome record with a 10-day price
\* has a 5-day price and one with a 20-day price has a 10-day price, and a
\* step that records a horizon leaves no shorter horizon unrecorded.
C21_HorizonsInOrder ==
    \A c \in Range(OCodes), i \in 2..3 :
        outcomes[c].h[i].price # NoPrice => outcomes[c].h[i - 1].price # NoPrice

\* All three horizons have long passed and a run has ended, yet a record
\* holds the 5-day and 10-day prices only: the 20-day price was not
\* available.
C21_Witness ==
    /\ oPhase = "idle" /\ runNo = MaxORuns
    /\ tday = MaxTDays
    /\ \E c \in Range(OCodes) :
          /\ outcomes[c].h[1].price # NoPrice
          /\ outcomes[c].h[2].price # NoPrice
          /\ outcomes[c].h[3].price = NoPrice

\* The attempt that ended the invocation of _analyze_sentiment_with_ai.
LastAttempt == service_outs[miss.calls]

\* _analyze_sentiment_with_ai was invoked by the miss and has returned.
Analyzed == miss.done /\ (news_found \/ dart_found)

\* C22: an invocation of _analyze_sentiment_with_ai calls the reasoning
\* service at least once and at most 3 times; every attempt before the last
\* ended in a rate-limit error and was followed by a sleep of 10 s, then
\* 20 s; an attempt that ends in any other error is the last one; and the
\* invocation returns the service's answer when the last attempt succeeded
\* and the neutral result with score 0 otherwise.
C22_BoundedRetry ==
    Analyzed =>
        /\ miss.calls \in 1..3
        /\ \A j \in 1..(miss.calls - 1) : service_outs[j].kind = "rate_limit"
        /\ miss.calls < 3 => LastAttempt.kind # "rate_limit"
        /\ \A j \in 1..3 :
               service_outs[j].kind = "error" => miss.calls <= j
        /\ miss.waits = SubSeq(<<10, 20>>, 1, miss.calls - 1)
        /\ IF LastAttempt.kind = "ok"
           THEN miss.result = AiResult(LastAttempt.raw)
           ELSE /\ miss.result.sentiment_score = 0
                /\ miss.result.reason = "failed"

\* Three rate-limit errors in a row: three calls, sleeps of 10 s and 20 s,
\* and the neutral result.
C22_Witness ==
    /\ Analyzed
    /\ \A j \in 1..3 : service_outs[j].kind = "rate_limit"
    /\ miss.calls = 3
    /\ miss.waits = <<10, 20>>
    /\ miss.result = FailedResult

\* C23: on a cache miss where both the news list and the disclosure list
\* are empty, the result is the neutral result with score 0 and the
\* reasoning service is not called.
C23_EmptyListsNoCall ==
    (miss.done /\ ~news_found /\ ~dart_found) =>
        /\ miss.result.sentiment_score = 0
        /\ miss.result.reason = "no_news"
        /\ miss.calls = 0
        /\ miss.waits = <<>>

\* Both lists were empty although the service would have answered.
C23_Witness ==
    /\ miss.done /\ ~news_found /\ ~dart_found
    /\ service_outs[1].kind = "ok"
    /\ miss.result = NoNewsResult
    /\ miss.calls = 0

\* The candidates of the current run whose analysis returned a result.
Analysed == {i \in DOMAIN cands : futState[i] = "result"}

\* The codes of the entries the current run returned.
ReturnedCodes == {returned[k].code : k \in DOMAIN returned}

\* C24: a run that returns recommendations returns the top `limit` of the
\* successfully analysed candidates: at most `limit` entries (all of them
\* when fewer succeeded), in non-increasing composite-score order, and no
\* analysed candidate that is left out scores higher than a returned one;
\* and the step that returns them replaces in the table exactly the rows
\* of the returned entities for the session date, each by the row of the
\* returned entry, and leaves every other row as it was, while a run that
\* returns nothing writes nothing.
C24_TopNRankedAndPersisted ==
    /\ [](phase = "returned" /\ returned # <<>> =>
             /\ Len(returned) = Min(limit, Cardinality(Analysed))
             /\ \A k \in 1..(Len(returned) - 1) :
                    /\ composite_score(returned[k])
                           >= composite_score(returned[k + 1])
                    /\ RoundedComposite(returned[k])
                           >= RoundedComposite(returned[k + 1])
             /\ \A k \in DOMAIN returned :
                    \E i \in Analysed :
                        returned[k] = WithCode(cands[i], futVal[i])
             /\ \A i \in Analysed :
                    cands[i] \notin ReturnedCodes =>
                        \A k \in DOMAIN returned :
                            composite_score(WithCode(cands[i], futVal[i]))
                                <= composite_score(returned[k]))
    /\ [][(phase = "analyzing" /\ phase' = "returned" /\ returned' # <<>>) =>
              \A c \in Codes, d \in 1..MaxDay :
                  IF d = saveDate' /\ \E k \in DOMAIN returned' :
                                          returned'[k].code = c
                  THEN \E k \in DOMAIN returned' :
                           /\ returned'[k].code = c
                           /\ RowsFor(store', c, d) = {Row(returned'[k], d)}
                           /\ CountRows(store', RowsFor(store', c, d)) = 1
                  ELSE /\ RowsFor(store', c, d) = RowsFor(store, c, d)
                       /\ CountRows(store', RowsFor(store', c, d))
                              = CountRows(store, RowsFor(store, c, d))]_vars
    /\ [][(phase' = "returned" /\ returned' = <<>>) => store' = store]_vars

\* Two candidates were analysed with different scores and the limit is 1:
\* the higher one is returned and stored, the other has no row.
C24_Witness ==
    /\ phase = "returned"
    /\ limit = 1
    /\ Len(returned) = 1
    /\ Cardinality(Analysed) = 2
    /\ \E i \in Analysed :
          /\ cands[i] \notin ReturnedCodes
          /\ composite_score(WithCode(cands[i], futVal[i]))
                 < composite_score(returned[1])
          /\ results[1] = returned[1]
          /\ RowsFor(store, cands[i], saveDate) = {}
    /\ RowsFor(store, returned[1].code, saveDate) # {}

\* C30: after any number of composer runs the table holds, for every
\* session date, exactly one row for every entity selected by some run of
\* that date and none for any other entity, and the row carries the values
\* of the latest run of that date that selected the entity, also when a
\* later run of the date selected other entities only.
C30_AccumulatesPerDate ==
    \A c \in Codes, d \in 1..MaxDay :
        IF selected[<<c, d>>] = <<>>
        THEN RowsFor(store, c, d) = {}
        ELSE /\ RowsFor(store, c, d) = {Row(selected[<<c, d>>][1], d)}
             /\ CountRows(store, RowsFor(store, c, d)) = 1

\* A run with limit 1 has returned one entity, and the session date reads
\* back two rows: the row of an entity that an earlier run of the date
\* selected is still there next to the row this run wrote.
C30_Witness ==
    /\ phase = "returned"
    /\ limit = 1
    /\ Len(returned) = 1
    /\ Cardinality(get_recommendations_by_date(store, saveDate)) = 2
    /\ \E c \in Codes \ ReturnedCodes :
          /\ selected[<<c, saveDate>>] # <<>>
          /\ Row(selected[<<c, saveDate>>][1], saveDate)
                 \in get_recommendations_by_date(store, saveDate)

\* C25: once the rule has been applied to an opinion with current price
\* > 0 and target price > 0, a BUY target is not below 98 % of the current
\* price, a HOLD target not below 92 % and a SELL target not above 102 %;
\* a BUY target below 98 % has been replaced by 103 % of the current price
\* and a SELL target above 102 % by 97 % of it, both truncated to whole
\* won, a HOLD with a target below 92 % has become a SELL with the same
\* target, and every other opinion is unchanged; and applying the rule
\* once more changes nothing.
C25_ConsistentAndIdempotent ==
    /\ (applied = 1 /\ cur_price > 0 /\ prev_opinion.target_price > 0) =>
           LET tp == prev_opinion.target_price
               a  == prev_opinion.action
           IN  /\ opinion.action = "BUY" =>
                      100 * opinion.target_price >= 98 * cur_price
               /\ opinion.action = "HOLD" =>
                      100 * opinion.target_price >= 92 * cur_price
               /\ opinion.action = "SELL" =>
                      100 * opinion.target_price <= 102 * cur_price
               /\ opinion =
                      IF a = "BUY" /\ 100 * tp < 98 * cur_price
                      THEN [action |-> "BUY",
                            target_price |-> (103 * cur_price) \div 100]
                      ELSE IF a = "HOLD" /\ 100 * tp < 92 * cur_price
                      THEN [action |-> "SELL", target_price |-> tp]
                      ELSE IF a = "SELL" /\ 100 * tp > 102 * cur_price
                      THEN [action |-> "SELL",
                            target_price |-> (97 * cur_price) \div 100]
                      ELSE prev_opinion
    /\ applied >= 2 => opinion = prev_opinion

\* A BUY at 100 won with target 97 was given the target 103, and the second
\* application left it alone.
C25_Witness ==
    /\ applied = 2
    /\ cur_price = 100
    /\ opinion = [action |-> "BUY", target_price |-> 103]
    /\ prev_opinion = opinion

\* The closes rise from every row to the next.
SteadilyRising == \A t \in 2..Len(closes) : closes[t] > closes[t - 1]

\* The signals alternate 1, 0, 1, ...
Alternating ==
    \A t \in DOMAIN signals : signals[t] = (IF t % 2 = 1 THEN 1 ELSE 0)

\* C26: in the daily results of a valid run the equity of day 1 is 1.0 and
\* the equity of every later day t is the equity of day t-1 times
\* 1 + signal(t-1) * change(t), less the fee-plus-tax cost exactly when
\* signal(t) differs from signal(t-1), the same cost for a change of any
\* size; and on steadily rising prices the alternating 1/0 signal has a
\* lower total return than the constant signal 1 has on the same prices.
C26_CostOnSignalChange ==
    bt_result.kind = "metrics" =>
        LET cum == bt_result.daily_results
        IN  /\ Len(cum) = Len(closes)
            /\ cum[1] = Unit
            /\ \A t \in 2..Len(closes) :
                   LET ret == signals[t - 1] * PctChange(closes, t)
                       charged == signals[t] # signals[t - 1]
                   IN  cum[t] = RoundDiv(cum[t - 1] *
                                    (Unit + ret - (IF charged THEN COST ELSE 0)),
                                    Unit)
            /\ (Len(closes) >= 2 /\ SteadilyRising /\ Alternating) =>
                   bt_result.total_return_pct <
                       run(closes, [t \in DOMAIN closes |-> 1],
                           capital).total_return_pct

\* Flat prices, a switch from short to long on day 2 and no change on day
\* 3: the cost is charged once on day 2 and not on day 3.
C26_Witness ==
    /\ bt_result.kind = "metrics"
    /\ Len(closes) = 3
    /\ \A t \in 1..3 : closes[t] = 100
    /\ signals = <<-1, 1, 1>>
    /\ bt_result.daily_results = <<Unit, Unit - COST, Unit - COST>>

\* RSI is defined on every row of the frame.
RsiEverywhere == \A i \in DOMAIN bars : bars[i].rsi # NaN

\* C27: generate_signals returns one signal per input row, each 0 or 1;
\* with the RSI strategy and RSI defined on every row, the signal of a row
\* is 1 if its RSI < 40, 0 if its RSI > 60, and otherwise the signal of the
\* previous row, 0 for the first row.
C27_SignalPerRow ==
    sig_out # <<>> =>
        LET sig == sig_out[1]
        IN  /\ Len(sig) = Len(bars)
            /\ \A i \in DOMAIN sig : sig[i] \in {0, 1}
            /\ (strategy_type = "RSI" /\ RsiEverywhere) =>
                   \A i \in DOMAIN bars :
                       sig[i] = IF bars[i].rsi < 40 THEN 1
                                ELSE IF bars[i].rsi > 60 THEN 0
                                ELSE IF i = 1 THEN 0 ELSE sig[i - 1]

\* RSI 39 on the first row and exactly 60 on the second: the position
\* opened on the first row is held on the second.
C27_Witness ==
    /\ sig_out = <<(<<1, 1>>)>>
    /\ strategy_type = "RSI"
    /\ Len(bars) = 2
    /\ bars[1].rsi = 39
    /\ bars[2].rsi = 60

\* The step is one call of get_stock_list.
ListCall == sl_calls' = sl_calls + 1

\* The call of the step neither contacts the data source nor changes the
\* cache, and returns the cached table, or the empty one when none is cached.
ServedWithoutFetch ==
    /\ sl_last'.attempts = 0
    /\ sl_last'.table = CacheOrEmpty(krx_cache)
    /\ krx_cache' = krx_cache

Neutral(r) == r.reason \in {"no_news", "failed"}

\* The tier-1 and tier-2 writes of a miss store the result the miss computed,
\* a neutral one like any other.
NeutralWritten ==
    \A c \in Callers :
        /\ (pc[c] = "w1" /\ pc'[c] = "w2") => l1'[key[c]] = sres[c]
        /\ (pc[c] = "w2" /\ pc'[c] = "done") =>
               /\ l2'[key[c]] = sres[c]
               /\ sres'[c] = sres[c]

\* C29 (as stated): once a neutral result has been returned for a key
\* (entity, calendar day), every call for that key that begins later returns
\* that neutral result from a cache tier, without a new fetch or reasoning
\* call.
C29_NeutralServedAllDay ==
    \A c \in Callers :
        (pc[c] = "done" /\ after[c] /\ Neutral(firstRet[key[c]])) =>
            /\ sres[c] = firstRet[key[c]]
            /\ tier[c] \in {"l1", "l2"}

\* C29 (amended): a miss that ends in a neutral result writes it to tier 1
\* and to tier 2 like any other result; and once a neutral result has been
\* returned for a key, every call for that key that begins later returns
\* that neutral result from a cache tier, without a new fetch or reasoning
\* call, provided no two calls that missed both tiers for the key overlapped
\* and no restart fell between a call's tier-1 write and its tier-2 write.
C29_NeutralServedUnlessRaced ==
    /\ [](\A c \in Callers :
            (pc[c] = "done" /\ after[c] /\ ~torn[key[c]]
                 /\ Neutral(firstRet[key[c]])) =>
                /\ sres[c] = firstRet[key[c]]
                /\ tier[c] \in {"l1", "l2"})
    /\ [][NeutralWritten]_vars

\* A miss ended in the neutral result of a failed reasoning call and wrote
\* both tiers; a later call on the same day got it from a cache tier.
C29_Witness ==
    \E c \in Callers :
        /\ pc[c] = "done" /\ after[c] /\ ~torn[key[c]]
        /\ firstRet[key[c]] = FailedResult
        /\ l1[key[c]] = FailedResult
        /\ l2[key[c]] = FailedResult
        /\ sres[c] = FailedResult
        /\ tier[c] = "l1"

=============================================================================
